---- MODULE Spec2Model ----
(***************************************************************************)
(* Link-layer concurrency core of embody-serial                            *)
(* (src/src/embodyserial/embodyserial.py): the sender with its single      *)
(* worker, the reader thread with its dispatcher, the three single-worker  *)
(* subscriber lanes, the shutdown latch and the bulk (file) mode.          *)
(***************************************************************************)
EXTENDS Integers, Sequences, FiniteSets, TLC

\* ------------------------------------------------------------------ bounds
NCallers == 2            \* caller threads, each issuing one send()/send_async()
MaxShutdownCalls == 2    \* sequential shutdown() calls of the application thread
MaxNotifications == 1    \* unsolicited notification frames the device pushes
MaxListeners == 1        \* user message listeners added with add_message_listener
MaxFileSize == 4         \* largest file size of a modelled download
NPorts == 2              \* candidate ports that comports() lists

\* ------------------------------------------------------- program constants
more_workers == 1 + 1
max_workers == 1         \* ThreadPoolExecutor(max_workers=1) of the sender
HeaderLen == 3           \* self.__serial.read(3)
ResponseBit == 128       \* msg.msg_type < 0x80
ChunkLen == 1024         \* min(remaining_length, 1024)
buffer_size == 2048      \* buffer_size = 2048 in __read_file
CrcLen == 2              \* self.__serial.read(2)
DownloadTimeout == 10    \* self.__serial.timeout = 10 in download_file

Callers == 1..NCallers
\* Send tasks are named after the caller that enqueued them; GetFileTask is
\* the GetFileUart request download_file enqueues.
GetFileTask == 0
TaskIds == Callers \cup {GetFileTask}
NoTimeout == 0           \* timeout=None: reads block
SendWorkers == 1..max_workers
ShutdownThreads == {"app", "reader"}

\* ---------------------------------------------------------------- messages
\* A decoded message: its type byte and, for responses, the order in which the
\* reader received it (seq).  NoMsg stands for Python's None.
NoMsg == [type |-> 0, seq |-> 0]
Raised == [type |-> -1, seq |-> 0]
NoTask == [listener |-> "none", msg |-> NoMsg, step |-> "none"]
NoSend == [id |-> -1, wait |-> FALSE]

\* The request caller c sends, and the response the device gives to it.
RequestType(c) == c
ResponseType(c) == ResponseBit + c
NotificationType == 1

Min(a, b) == IF a < b THEN a ELSE b
Take(s, n) == SubSeq(s, 1, Min(IF n > 0 THEN n ELSE 0, Len(s)))
Drop(s, n) == SubSeq(s, Min(IF n > 0 THEN n ELSE 0, Len(s)) + 1, Len(s))

\* A byte in flight from the device carries, beside its value b, what the
\* device sent it as: "H" the first byte of a protocol frame, "P" a later byte
\* of a protocol frame, "F" a byte of a bulk stream (payload or its CRC).  The
\* program sees the values only.
Bytes(s) == [i \in 1..Len(s) |-> s[i].b]
Kinds(s) == {s[i].k : i \in 1..Len(s)}
FrameOnWire(bytes) ==
    [i \in 1..Len(bytes) |-> [b |-> bytes[i], k |-> IF i = 1 THEN "H" ELSE "P"]]
StreamOnWire(bytes) == [i \in 1..Len(bytes) |-> [b |-> bytes[i], k |-> "F"]]

\* ------------------------------------------------------ CRC-16/CCITT-FALSE
\* __calculate_crc_ccitt, bit by bit.  The code masks with 0xFFFF at the end
\* only; masking in every step gives the same low 16 bits, since the bits
\* above bit 15 never flow back down, and keeps the numbers in range.
\* x ^ p for a power of two p
Flip(x, p) == IF (x \div p) % 2 = 1 THEN x - p ELSE x + p

\* crc ^ (b << 8): every bit set in the byte b flips that bit of the high byte
XorByte(crc, b) ==
    LET f(x, i) == IF (b \div i) % 2 = 1 THEN Flip(x, i * 256) ELSE x
    IN  f(f(f(f(f(f(f(f(crc, 1), 2), 4), 8), 16), 32), 64), 128)

\* (crc << 1) ^ 0x1021 when bit 15 is set, else crc << 1
CrcStep(crc) ==
    IF (crc \div 32768) % 2 = 1
    THEN Flip(Flip(Flip((crc * 2) % 65536, 1), 32), 4096)
    ELSE (crc * 2) % 65536

\* One pass of the shift loop, applied to the value of crc (v ranges over the
\* one-element set {crc}), so that the passes do not nest their arguments.
CrcStepOf(crc) == CHOOSE r \in {CrcStep(v) : v \in {crc}} : TRUE

\* for _ in range(8)
CrcShift(crc) ==
    CrcStepOf(CrcStepOf(CrcStepOf(CrcStepOf(CrcStepOf(CrcStepOf(CrcStepOf(CrcStepOf(crc))))))))

\* for b in data.  Each pass is computed from the value of crc (c ranges over
\* the one-element set {crc}), so that the passes do not nest.
RECURSIVE CrcFrom(_, _)
CrcFrom(crc, data) ==
    IF data = <<>> THEN crc
    ELSE CrcFrom(CHOOSE r \in {CrcShift(XorByte(c, Head(data))) : c \in {crc}} : TRUE,
                 Tail(data))

crc16(data) == CrcFrom(65535, data)

\* struct.pack(">H", crc) and struct.unpack(">H", two bytes)
PackH(n) == <<n \div 256, n % 256>>
UnpackH(b) == b[1] * 256 + b[2]

\* msg.encode(): type:u8 | length:u16-be | body | crc:u16-be, with an empty body
Encode(t) == <<t, 0, 5>> \o PackH(crc16(<<t, 0, 5>>))

\* codec.decode(raw_message): the frame is well-formed when its length field
\* is covered by the bytes read and its trailing CRC matches.
Decodable(raw) ==
    /\ Len(raw) >= 5
    /\ UnpackH(<<raw[2], raw[3]>>) = Len(raw)
    /\ UnpackH(<<raw[Len(raw) - 1], raw[Len(raw)]>>) = crc16(SubSeq(raw, 1, Len(raw) - 2))

\* The bulk stream of a file of `size` bytes: the payload, then the CRC-16 of
\* the payload, big-endian; a corrupted stream carries another CRC.
FilePayload(size) == [i \in 1..size |-> 65 + i]
FileStream(size, crc_ok) ==
    FilePayload(size) \o
    PackH(IF crc_ok THEN crc16(FilePayload(size))
          ELSE (crc16(FilePayload(size)) + 1) % 65536)

VARIABLES
    \* EmbodySerial
    connected, shutdown_lock, spc, shcalls,
    \* the link (serial instance and the device behind it)
    is_open, tx, rx, answered, notified,
    \* _MessageSender
    send_queue, send_shutdown, send_lock, response_event,
    current_response_message, wpc, wtask, future,
    \* callers of send / send_async
    cpc, cret,
    \* _ReaderThread
    rpc, alive, raw_header,
    lane_queue, lane_run, lane_shutdown,
    message_listeners, response_message_listeners,
    \* file mode of _ReaderThread, and the link's read timeout
    file_mode, file_size, original_file_name, file_name, file_error,
    file_event, file_download_listener, serial_timeout, read_timeout,
    \* locals of __read_file
    remaining_size, in_memory_buffer, loop_count,
    \* the caller of download_file and the download it asks for
    dpc, dret, artifact, dl_size, dl_crc_ok, dl_listener,
    \* history of the run
    rxCount, wmark, closeCount, stopCount, senderShutdownCount,
    lastDispatch, writers, cop, enq, dl_timedout, misframed,
    \* collaborators: the candidate ports of auto-detection with the probe
    \* running on them, and the calls of the typed-request facade
    ports, probe, helper,
    \* locals of __read_protocol_message while it gathers a frame
    frame

lifeVars == <<connected, shutdown_lock, spc, shcalls>>
linkVars == <<is_open, tx, rx, answered, notified>>
senderVars == <<send_queue, send_shutdown, send_lock, response_event,
                current_response_message, wpc, wtask, future>>
callerVars == <<cpc, cret>>
readerVars == <<rpc, alive, raw_header>>
laneVars == <<lane_queue, lane_run, lane_shutdown>>
listenerVars == <<message_listeners, response_message_listeners>>
histVars == <<rxCount, wmark, closeCount, stopCount, senderShutdownCount,
              lastDispatch, writers, cop, enq>>
fileVars == <<file_mode, file_size, original_file_name, file_name, file_error,
              file_event, file_download_listener, serial_timeout, read_timeout,
              remaining_size, in_memory_buffer, loop_count,
              dpc, dret, artifact, dl_size, dl_crc_ok, dl_listener,
              dl_timedout, misframed>>

collaboratorVars == <<ports, probe, helper, frame>>

vars == <<lifeVars, linkVars, senderVars, callerVars, readerVars, laneVars,
          listenerVars, histVars, fileVars, collaboratorVars>>

\* The executors of _ReaderThread.__init__
shared_executor == "rcv"
message_listener_executor == "rcv"
response_message_listener_executor == "rsp"
file_download_listener_executor == "dwnld"
Lanes == {message_listener_executor, response_message_listener_executor,
          file_download_listener_executor}

\* The candidate ports of __find_serial_port, none opened yet; no probe and
\* no facade call under way.
Ports == 1..NPorts
UnopenedPort == [is_open |-> FALSE, tx |-> <<>>, response |-> <<>>, closes |-> 0,
                 alive |-> "unknown"]
NoProbe == [pc |-> "idle", port |-> 0]
NoCall == [pc |-> "idle", op |-> "none", result |-> "none"]
NoFrame == [pc |-> "idle", length |-> 0, remaining_length |-> 0, raw_message |-> 0,
            requested |-> <<>>]

\* The state after EmbodySerial.__init__, the download still to be asked for.
Constructed ==
    /\ connected = TRUE
    /\ shutdown_lock = "none"
    /\ spc = [t \in ShutdownThreads |-> "idle"]
    /\ shcalls = 0
    /\ is_open = TRUE
    /\ tx = <<>>
    /\ rx = <<>>
    /\ answered = 0
    /\ notified = 0
    /\ send_queue = <<>>
    /\ send_shutdown = FALSE
    /\ send_lock = 0
    /\ response_event = FALSE
    /\ current_response_message = NoMsg
    /\ wpc = [w \in SendWorkers |-> "idle"]
    /\ wtask = [w \in SendWorkers |-> NoSend]
    /\ future = [i \in TaskIds |-> [state |-> "none", result |-> NoMsg]]
    /\ cpc = [c \in Callers |-> "idle"]
    /\ cret = [c \in Callers |-> NoMsg]
    /\ rpc = "check"
    /\ alive = TRUE
    /\ raw_header = <<>>
    /\ lane_queue = [l \in Lanes |-> <<>>]
    /\ lane_run = [l \in Lanes |-> NoTask]
    /\ lane_shutdown = [l \in Lanes |-> FALSE]
    /\ response_message_listeners = <<"sender">>
    /\ file_mode = FALSE
    /\ file_size = -1
    /\ original_file_name = "none"
    /\ file_name = "none"
    /\ file_error = "none"
    /\ file_event = FALSE
    /\ file_download_listener = "none"
    /\ serial_timeout = NoTimeout
    /\ read_timeout = NoTimeout
    /\ remaining_size = 0
    /\ in_memory_buffer = <<>>
    /\ loop_count = 0
    /\ dpc = "idle"
    /\ dret = [kind |-> "none", data |-> <<>>]
    /\ artifact = <<>>
    /\ rxCount = 0
    /\ wmark = [i \in TaskIds |-> -1]
    /\ closeCount = 0
    /\ stopCount = 0
    /\ senderShutdownCount = 0
    /\ lastDispatch = [type |-> 0, rcv |-> 0, rsp |-> 0, listeners |-> 0, shut |-> FALSE]
    /\ writers = {}
    /\ cop = [c \in Callers |-> "none"]
    /\ enq = <<>>
    /\ dl_timedout = FALSE
    /\ misframed = FALSE
    /\ ports = [p \in Ports |-> UnopenedPort]
    /\ probe = NoProbe
    /\ helper = [c \in Callers |-> NoCall]
    /\ frame = NoFrame

\* EmbodySerial constructed without a message listener; no download is asked
\* for.
Init ==
    /\ Constructed
    /\ message_listeners = <<>>
    /\ dl_size = 0
    /\ dl_crc_ok = TRUE
    /\ dl_listener = "none"

\* ------------------------------------------------------------------ sender
EnqueueFront(q, task) == <<task>> \o q

\* ThreadPoolExecutor.submit: the work queue is FIFO.
Enqueue(q, task) == Append(q, task)

\* _MessageSender.__send_async, called by send() and send_async():
\* submit raises RuntimeError once the executor has been shut down.
send_async_submit(c, wait) ==
    IF send_shutdown
    THEN /\ cpc' = [cpc EXCEPT ![c] = "done"]
         /\ cret' = [cret EXCEPT ![c] = Raised]
         /\ UNCHANGED <<send_queue, future, enq>>
    ELSE /\ send_queue' = Enqueue(send_queue, [id |-> c, wait |-> wait])
         /\ enq' = Append(enq, c)
         /\ future' = [future EXCEPT ![c] = [state |-> "pending", result |-> NoMsg]]
         /\ cpc' = [cpc EXCEPT ![c] = IF wait THEN "wait" ELSE "done"]
         /\ UNCHANGED cret

\* EmbodySerial.send -> send_message_and_wait_for_response, up to future.result
send(c) ==
    /\ cpc[c] = "idle"
    /\ send_async_submit(c, TRUE)
    /\ cop' = [cop EXCEPT ![c] = "send"]
    /\ UNCHANGED <<fileVars, lifeVars, linkVars, send_shutdown, send_lock, response_event,
                   current_response_message, wpc, wtask, readerVars,
                   laneVars, listenerVars, rxCount, wmark, closeCount, stopCount,
                   senderShutdownCount, lastDispatch, writers>>
    /\ UNCHANGED collaboratorVars

\* EmbodySerial.send_async -> send_message
send_async(c) ==
    /\ cpc[c] = "idle"
    /\ send_async_submit(c, FALSE)
    /\ cop' = [cop EXCEPT ![c] = "send_async"]
    /\ UNCHANGED <<fileVars, lifeVars, linkVars, send_shutdown, send_lock, response_event,
                   current_response_message, wpc, wtask, readerVars,
                   laneVars, listenerVars, rxCount, wmark, closeCount, stopCount,
                   senderShutdownCount, lastDispatch, writers>>
    /\ UNCHANGED collaboratorVars

\* future.result(timeout) returns the task's result
future_result(c) ==
    /\ cpc[c] = "wait"
    /\ future[c].state = "done"
    /\ cpc' = [cpc EXCEPT ![c] = "done"]
    /\ cret' = [cret EXCEPT ![c] = future[c].result]
    /\ UNCHANGED <<fileVars, lifeVars, linkVars, senderVars, readerVars, laneVars,
                   listenerVars, histVars>>
    /\ UNCHANGED collaboratorVars

\* A future whose timed-out result() cancels the work item while it is queued.
future_timeout_cancels(c) ==
    /\ cpc[c] = "wait"
    /\ future[c].state # "done"
    /\ cpc' = [cpc EXCEPT ![c] = "done"]
    /\ cret' = [cret EXCEPT ![c] = NoMsg]
    /\ send_queue' = SelectSeq(send_queue, LAMBDA task : task.id # c)
    /\ UNCHANGED <<fileVars, lifeVars, linkVars, send_shutdown, send_lock, response_event,
                   current_response_message, wpc, wtask, future, readerVars,
                   laneVars, listenerVars, histVars>>
    /\ UNCHANGED collaboratorVars

\* future.result(timeout) raises TimeoutError: send returns None; the task
\* stays where it is.
future_timeout(c) ==
    /\ cpc[c] = "wait"
    /\ future[c].state # "done"
    /\ cpc' = [cpc EXCEPT ![c] = "done"]
    /\ cret' = [cret EXCEPT ![c] = NoMsg]
    /\ UNCHANGED <<fileVars, lifeVars, linkVars, senderVars, readerVars, laneVars,
                   listenerVars, histVars>>
    /\ UNCHANGED collaboratorVars

\* __do_send returns `result`: the lock is released and the future completed.
do_send_finish(w, task, result) ==
    /\ future' = [future EXCEPT ![task.id] = [state |-> "done", result |-> result]]
    /\ wtask' = [wtask EXCEPT ![w] = NoSend]
    /\ wpc' = [wpc EXCEPT ![w] = "idle"]
    /\ send_lock' = 0

\* The send worker takes the next work item (it keeps draining the queue
\* after shutdown(wait=False, cancel_futures=False)) and enters __do_send:
\* with self.__send_lock: if not self.__serial.is_open: return None
do_send_lock(w) ==
    /\ wpc[w] = "idle"
    /\ send_queue # <<>>
    /\ send_lock = 0
    /\ send_queue' = Tail(send_queue)
    /\ IF is_open
       THEN /\ send_lock' = w
            /\ wtask' = [wtask EXCEPT ![w] = Head(send_queue)]
            /\ wpc' = [wpc EXCEPT ![w] = "clear"]
            /\ UNCHANGED future
       ELSE do_send_finish(w, Head(send_queue), NoMsg)
    /\ UNCHANGED <<fileVars, lifeVars, linkVars, send_shutdown, response_event,
                   current_response_message, callerVars, readerVars,
                   laneVars, listenerVars, histVars>>
    /\ UNCHANGED collaboratorVars

\* self.__response_event.clear(); the slot itself is left as it is
do_send_clear(w) ==
    /\ wpc[w] = "clear"
    /\ response_event' = FALSE
    /\ wpc' = [wpc EXCEPT ![w] = "write"]
    /\ UNCHANGED <<fileVars, lifeVars, linkVars, send_queue, send_shutdown, send_lock,
                   current_response_message, wtask, future, callerVars,
                   readerVars, laneVars, listenerVars, histVars>>
    /\ UNCHANGED collaboratorVars

\* self.__serial.write(msg.encode()): a closed port raises (SerialException)
\* and the task returns None; without a wait the task returns None at once.
do_send_write(w) ==
    /\ wpc[w] = "write"
    /\ IF is_open
       THEN /\ tx' = Append(tx, wtask[w].id)
            /\ writers' = writers \cup {w}
            /\ wmark' = [wmark EXCEPT ![wtask[w].id] = rxCount]
            /\ IF wtask[w].wait
               THEN /\ wpc' = [wpc EXCEPT ![w] = "wait"]
                    /\ UNCHANGED <<wtask, future, send_lock>>
               ELSE do_send_finish(w, wtask[w], NoMsg)
       ELSE /\ do_send_finish(w, wtask[w], NoMsg)
            /\ UNCHANGED <<tx, writers, wmark>>
    /\ UNCHANGED <<fileVars, lifeVars, is_open, rx, answered, notified, send_queue,
                   send_shutdown, response_event, current_response_message,
                   callerVars, readerVars, laneVars, listenerVars, rxCount,
                   closeCount, stopCount, senderShutdownCount, lastDispatch, cop, enq>>
    /\ UNCHANGED collaboratorVars

\* self.__response_event.wait(secs) returns True
do_send_wait(w) ==
    /\ wpc[w] = "wait"
    /\ response_event
    /\ wpc' = [wpc EXCEPT ![w] = "read"]
    /\ UNCHANGED <<fileVars, lifeVars, linkVars, send_queue, send_shutdown, send_lock,
                   response_event, current_response_message, wtask, future,
                   callerVars, readerVars, laneVars, listenerVars, histVars>>
    /\ UNCHANGED collaboratorVars

\* self.__response_event.wait(secs) times out: return None
do_send_timeout(w) ==
    /\ wpc[w] = "wait"
    /\ ~response_event
    /\ do_send_finish(w, wtask[w], NoMsg)
    /\ UNCHANGED <<fileVars, lifeVars, linkVars, send_queue, send_shutdown, response_event,
                   current_response_message, callerVars, readerVars,
                   laneVars, listenerVars, histVars>>
    /\ UNCHANGED collaboratorVars

\* return self.__current_response_message
do_send_return(w) ==
    /\ wpc[w] = "read"
    /\ do_send_finish(w, wtask[w], current_response_message)
    /\ UNCHANGED <<fileVars, lifeVars, linkVars, send_queue, send_shutdown, response_event,
                   current_response_message, callerVars, readerVars,
                   laneVars, listenerVars, histVars>>
    /\ UNCHANGED collaboratorVars

\* A pool that hands its worker any queued callback, not the oldest one.
lane_take_any(l) ==
    /\ lane_run[l] = NoTask
    /\ \E i \in 1..Len(lane_queue[l]) :
          /\ lane_run' = [lane_run EXCEPT ![l] = lane_queue[l][i]]
          /\ lane_queue' = [lane_queue EXCEPT ![l] = Take(@, i - 1) \o Drop(@, i)]
    /\ UNCHANGED <<fileVars, lifeVars, linkVars, senderVars, callerVars, readerVars,
                   lane_shutdown, listenerVars, histVars>>
    /\ UNCHANGED collaboratorVars

\* ------------------------------------------------------- subscriber lanes
\* A lane's single worker takes the next queued callback; like the send
\* worker it keeps draining its queue after shutdown(wait=False).
lane_take(l) ==
    /\ lane_run[l] = NoTask
    /\ lane_queue[l] # <<>>
    /\ lane_run' = [lane_run EXCEPT ![l] = Head(lane_queue[l])]
    /\ lane_queue' = [lane_queue EXCEPT ![l] = Tail(@)]
    /\ UNCHANGED <<fileVars, lifeVars, linkVars, senderVars, callerVars, readerVars,
                   lane_shutdown, listenerVars, histVars>>
    /\ UNCHANGED collaboratorVars

\* _MessageSender.response_message_received, first statement:
\* self.__current_response_message = msg
response_message_received_store(l) ==
    /\ lane_run[l].listener = "sender"
    /\ lane_run[l].step = "call"
    /\ current_response_message' = lane_run[l].msg
    /\ lane_run' = [lane_run EXCEPT ![l].step = "set"]
    /\ UNCHANGED <<fileVars, lifeVars, linkVars, send_queue, send_shutdown, send_lock,
                   response_event, wpc, wtask, future, callerVars, readerVars,
                   lane_queue, lane_shutdown, listenerVars, histVars>>
    /\ UNCHANGED collaboratorVars

\* _MessageSender.response_message_received, second statement:
\* self.__response_event.set()
response_message_received_set(l) ==
    /\ lane_run[l].listener = "sender"
    /\ lane_run[l].step = "set"
    /\ response_event' = TRUE
    /\ lane_run' = [lane_run EXCEPT ![l] = NoTask]
    /\ UNCHANGED <<fileVars, lifeVars, linkVars, send_queue, send_shutdown, send_lock,
                   current_response_message, wpc, wtask, future, callerVars,
                   readerVars, lane_queue, lane_shutdown, listenerVars, histVars>>
    /\ UNCHANGED collaboratorVars

\* A user callback (message_received / response_message_received of a
\* subscriber) returns or raises; the exception is swallowed at the delivery
\* site.  Nothing forces a user callback to return.
listener_return(l) ==
    /\ lane_run[l].listener \notin {"none", "sender"}
    /\ lane_run' = [lane_run EXCEPT ![l] = NoTask]
    /\ UNCHANGED <<fileVars, lifeVars, linkVars, senderVars, callerVars, readerVars,
                   lane_queue, lane_shutdown, listenerVars, histVars>>
    /\ UNCHANGED collaboratorVars

\* A pool whose worker is ended by the exception of a callback: the work item
\* is never finished and the worker takes nothing more.
listener_raise_uncaught(l) ==
    /\ lane_run[l].listener \notin {"none", "sender"}
    /\ lane_run[l].step # "except"
    /\ lane_run' = [lane_run EXCEPT ![l] = [listener |-> "none", msg |-> NoMsg,
                                            step |-> "except"]]
    /\ UNCHANGED <<fileVars, lifeVars, linkVars, senderVars, callerVars, readerVars,
                   lane_queue, lane_shutdown, listenerVars, histVars>>
    /\ UNCHANGED collaboratorVars

\* A user callback raises: control passes to the `except Exception` clause of
\* the delivery wrapper (__notify_message_listener, __notify_rsp_message_listener,
\* __notify_file_download_progress / _complete / _failed), which logs; the
\* wrapper then returns like a callback that returned (listener_return).
listener_raise(l) ==
    /\ lane_run[l].listener \notin {"none", "sender"}
    /\ lane_run[l].step # "except"
    /\ lane_run' = [lane_run EXCEPT ![l].step = "except"]
    /\ UNCHANGED <<fileVars, lifeVars, linkVars, senderVars, callerVars, readerVars,
                   lane_queue, lane_shutdown, listenerVars, histVars>>
    /\ UNCHANGED collaboratorVars

\* EmbodySerial.add_message_listener
add_message_listener ==
    /\ Len(message_listeners) < MaxListeners
    /\ message_listeners' = Append(message_listeners, "msg_user")
    /\ UNCHANGED <<fileVars, lifeVars, linkVars, senderVars, callerVars, readerVars,
                   laneVars, response_message_listeners, histVars>>
    /\ UNCHANGED collaboratorVars

\* ------------------------------------------------------------------ device
\* The device answers the oldest request it has not answered yet, at any
\* time after the request was written: a response frame for a request, the
\* bulk stream for GetFileUart.
device_respond ==
    /\ is_open
    /\ answered < Len(tx)
    /\ rx' = rx \o
             (IF tx[answered + 1] = GetFileTask
              THEN StreamOnWire(FileStream(dl_size, dl_crc_ok))
              ELSE FrameOnWire(Encode(ResponseType(tx[answered + 1]))))
    /\ answered' = answered + 1
    /\ UNCHANGED <<fileVars, lifeVars, is_open, tx, notified, senderVars, callerVars,
                   readerVars, laneVars, listenerVars, histVars>>
    /\ UNCHANGED collaboratorVars

\* The device pushes an unsolicited notification frame.
device_notify ==
    /\ is_open
    /\ notified < MaxNotifications
    /\ rx' = rx \o FrameOnWire(Encode(NotificationType))
    /\ notified' = notified + 1
    /\ UNCHANGED <<fileVars, lifeVars, is_open, tx, answered, senderVars, callerVars,
                   readerVars, laneVars, listenerVars, histVars>>
    /\ UNCHANGED collaboratorVars

\* ------------------------------------------------------------------ reader
\* while self.alive and self.__serial.is_open
run_check ==
    /\ rpc = "check"
    /\ rpc' = IF alive /\ is_open THEN "read" ELSE "exit"
    /\ UNCHANGED <<fileVars, lifeVars, linkVars, senderVars, callerVars, alive, raw_header,
                   laneVars, listenerVars, histVars>>
    /\ UNCHANGED collaboratorVars

fileState == <<file_mode, file_size, original_file_name, file_name, file_error,
               file_event, file_download_listener>>
fileLocals == <<remaining_size, in_memory_buffer, loop_count>>
downloadVars == <<dpc, dret, artifact, dl_size, dl_crc_ok, dl_listener, dl_timedout>>
timeoutVars == <<serial_timeout, read_timeout>>

\* raw_header = self.__serial.read(3) returns the three header bytes;
\* if self.__file_mode: __read_file(raw_header) else __read_protocol_message
run_read_header ==
    /\ rpc = "read"
    /\ is_open
    /\ Len(rx) >= HeaderLen
    /\ raw_header' = Bytes(Take(rx, HeaderLen))
    /\ rx' = Drop(rx, HeaderLen)
    /\ rpc' = IF file_mode THEN "file" ELSE "msg"
    /\ misframed' = (misframed \/
                     IF file_mode THEN Kinds(Take(rx, HeaderLen)) # {"F"}
                     ELSE rx[1].k # "H" \/ Kinds(SubSeq(rx, 2, HeaderLen)) # {"P"})
    /\ UNCHANGED <<fileState, fileLocals, downloadVars, timeoutVars, lifeVars,
                   is_open, tx, answered, notified, senderVars,
                   callerVars, alive, laneVars, listenerVars, histVars>>
    /\ UNCHANGED collaboratorVars

\* The blocked read ends without a header: the port was closed (the read
\* raises or returns nothing), or the link fails (SerialException, OSError,
\* EOF) while it is open.
run_read_failed ==
    /\ \/ rpc = "read"
       \/ rpc = "msg" /\ ~is_open
    /\ rpc' = "exit"
    /\ UNCHANGED <<fileVars, lifeVars, linkVars, senderVars, callerVars, alive, raw_header,
                   laneVars, listenerVars, histVars>>
    /\ UNCHANGED collaboratorVars

\* remaining_length = length - 3
RemainingLength(header) == UnpackH(<<header[2], header[3]>>) - HeaderLen

\* The decoded message: responses are numbered in the order of their receipt.
Decoded(raw) ==
    [type |-> raw[1], seq |-> IF raw[1] >= ResponseBit THEN rxCount + 1 ELSE 0]

ExecutorIgnoringType(msg) == message_listener_executor

\* __handle_incoming_message: the lane and the listeners of a message
ExecutorOf(msg) ==
    IF msg.type < ResponseBit THEN message_listener_executor
    ELSE response_message_listener_executor

ListenersOf(msg) ==
    IF msg.type < ResponseBit THEN message_listeners
    ELSE response_message_listeners

\* __handle_message / __handle_response_message: one submit per listener; with
\* no listener nothing is submitted, and a lane that was shut down refuses the
\* submit (RuntimeError, caught and logged in __read_protocol_message).
handle_incoming_message(msg) ==
    LET ex == ExecutorOf(msg)
        ls == ListenersOf(msg)
        tasks == [i \in 1..Len(ls) |-> [listener |-> ls[i], msg |-> msg, step |-> "call"]]
        queued == IF lane_shutdown[ex] THEN <<>> ELSE tasks
    IN  /\ lane_queue' = [lane_queue EXCEPT ![ex] = @ \o queued]
        /\ lastDispatch' = [type |-> msg.type,
                            rcv |-> IF ex = "rcv" THEN Len(queued) ELSE 0,
                            rsp |-> IF ex = "rsp" THEN Len(queued) ELSE 0,
                            listeners |-> Len(ls),
                            shut |-> lane_shutdown[ex]]
        /\ rxCount' = IF msg.type >= ResponseBit THEN rxCount + 1 ELSE rxCount

\* The device owes the host nothing and no request is about to be written: a
\* read with a timeout that finds too few bytes returns short.
Quiescent ==
    /\ answered = Len(tx)
    /\ send_queue = <<>>
    /\ \A w \in SendWorkers : wpc[w] \notin {"clear", "write"}
ShortReads == serial_timeout # NoTimeout /\ Quiescent

\* __read_protocol_message: gather length - 3 further bytes in reads of at most
\* 1024 bytes, decode, dispatch; a frame the codec rejects is logged and
\* dropped.  A read that finds fewer bytes blocks, or returns short when the
\* link has a read timeout.
read_protocol_message ==
    /\ rpc = "msg"
    /\ is_open
    /\ LET n == RemainingLength(raw_header)
           need == IF n > 0 THEN n ELSE 0
           got == Take(rx, need)
           raw_message == raw_header \o Bytes(got)
       IN  /\ Len(rx) >= need \/ ShortReads
           /\ rx' = Drop(rx, need)
           /\ misframed' = (misframed \/ ~(Kinds(got) \subseteq {"P"}))
           /\ IF Decodable(raw_message)
              THEN handle_incoming_message(Decoded(raw_message))
              ELSE UNCHANGED <<lane_queue, lastDispatch, rxCount>>
    /\ rpc' = "check"
    /\ raw_header' = <<>>
    /\ UNCHANGED <<fileState, fileLocals, downloadVars, timeoutVars, lifeVars,
                   is_open, tx, answered, notified, senderVars,
                   callerVars, alive, lane_run, lane_shutdown, listenerVars,
                   wmark, closeCount, stopCount, senderShutdownCount, writers, cop, enq>>
    /\ UNCHANGED collaboratorVars

\* raw_header = self.__serial.read(3) returns fewer than three bytes when the
\* read timeout expires: "Interrupted. Exiting reader thread.", break.
run_read_short ==
    /\ rpc = "read"
    /\ is_open
    /\ Len(rx) < HeaderLen
    /\ ShortReads
    /\ rx' = <<>>
    /\ rpc' = "exit"
    /\ UNCHANGED <<fileVars, lifeVars, is_open, tx, answered, notified, senderVars,
                   callerVars, alive, raw_header, laneVars, listenerVars, histVars>>
    /\ UNCHANGED collaboratorVars

\* A reader loop that ends without telling its connection listeners.
run_exit_silent ==
    /\ rpc = "exit"
    /\ alive' = FALSE
    /\ rpc' = "dead"
    /\ UNCHANGED <<fileVars, lifeVars, linkVars, senderVars, callerVars, raw_header,
                   laneVars, listenerVars, histVars>>
    /\ UNCHANGED collaboratorVars

\* After the loop: self.alive = False; __notify_connection_listeners(False),
\* which calls EmbodySerial.on_connected(False) -> shutdown() on this thread.
run_exit ==
    /\ rpc = "exit"
    /\ alive' = FALSE
    /\ rpc' = "notify"
    /\ spc' = [spc EXCEPT !["reader"] = "lock"]
    /\ UNCHANGED <<fileVars, connected, shutdown_lock, shcalls, linkVars, senderVars,
                   callerVars, raw_header, laneVars, listenerVars, histVars>>
    /\ UNCHANGED collaboratorVars

\* --------------------------------------------------------------- lifecycle
\* The application calls EmbodySerial.shutdown()
shutdown_call ==
    /\ spc["app"] = "idle"
    /\ shcalls < MaxShutdownCalls
    /\ shcalls' = shcalls + 1
    /\ spc' = [spc EXCEPT !["app"] = "lock"]
    /\ UNCHANGED <<fileVars, connected, shutdown_lock, linkVars, senderVars, callerVars,
                   readerVars, laneVars, listenerVars, histVars>>
    /\ UNCHANGED collaboratorVars

ShutdownAlways == TRUE

\* if not self.__connected: return
ShutdownProceeds == connected

\* with self.__shutdown_lock: if not self.__connected: return
\*                            self.__connected = False
shutdown_enter(t) ==
    /\ spc[t] = "lock"
    /\ shutdown_lock = "none"
    /\ IF ShutdownProceeds
       THEN /\ shutdown_lock' = t
            /\ connected' = FALSE
            /\ spc' = [spc EXCEPT ![t] = "close"]
            /\ UNCHANGED rpc
       ELSE /\ spc' = [spc EXCEPT ![t] = "idle"]
            /\ rpc' = IF t = "reader" THEN "dead" ELSE rpc
            /\ UNCHANGED <<shutdown_lock, connected>>
    /\ UNCHANGED <<fileVars, shcalls, linkVars, senderVars, callerVars, alive, raw_header,
                   laneVars, listenerVars, histVars>>
    /\ UNCHANGED collaboratorVars

\* self.__serial.close()
shutdown_close(t) ==
    /\ spc[t] = "close"
    /\ is_open' = FALSE
    /\ closeCount' = closeCount + 1
    /\ spc' = [spc EXCEPT ![t] = "stop"]
    /\ UNCHANGED <<fileVars, connected, shutdown_lock, shcalls, tx, rx, answered, notified,
                   senderVars, callerVars, readerVars, laneVars, listenerVars,
                   rxCount, wmark, stopCount, senderShutdownCount, lastDispatch,
                   writers, cop, enq>>
    /\ UNCHANGED collaboratorVars

\* _ReaderThread.stop(), up to the join: nothing happens when the reader is
\* no longer alive; else alive is cleared and the three pools are shut down.
reader_stop(t) ==
    /\ spc[t] = "stop"
    /\ stopCount' = stopCount + 1
    /\ IF alive
       THEN /\ alive' = FALSE
            /\ lane_shutdown' = [l \in Lanes |-> TRUE]
            /\ spc' = [spc EXCEPT ![t] = "join"]
       ELSE /\ spc' = [spc EXCEPT ![t] = "sender"]
            /\ UNCHANGED <<alive, lane_shutdown>>
    /\ UNCHANGED <<fileVars, connected, shutdown_lock, shcalls, linkVars, senderVars,
                   callerVars, rpc, raw_header, lane_queue, lane_run,
                   listenerVars, rxCount, wmark, closeCount, senderShutdownCount,
                   lastDispatch, writers, cop, enq>>
    /\ UNCHANGED collaboratorVars

\* A join without a timeout: it returns only when the reader thread has ended.
reader_join_until_ended(t) ==
    /\ spc[t] = "join"
    /\ rpc = "dead"
    /\ spc' = [spc EXCEPT ![t] = "sender"]
    /\ UNCHANGED <<fileVars, connected, shutdown_lock, shcalls, linkVars, senderVars,
                   callerVars, readerVars, laneVars, listenerVars, histVars>>
    /\ UNCHANGED collaboratorVars

\* self.join(2): returns when the reader thread has ended, or after 2 s
reader_join(t) ==
    /\ spc[t] = "join"
    /\ spc' = [spc EXCEPT ![t] = "sender"]
    /\ UNCHANGED <<fileVars, connected, shutdown_lock, shcalls, linkVars, senderVars,
                   callerVars, readerVars, laneVars, listenerVars, histVars>>
    /\ UNCHANGED collaboratorVars

\* self.__sender.shutdown(), then the shutdown lock is released
sender_shutdown(t) ==
    /\ spc[t] = "sender"
    /\ send_shutdown' = TRUE
    /\ senderShutdownCount' = senderShutdownCount + 1
    /\ shutdown_lock' = "none"
    /\ spc' = [spc EXCEPT ![t] = "idle"]
    /\ rpc' = IF t = "reader" THEN "dead" ELSE rpc
    /\ UNCHANGED <<fileVars, connected, shcalls, linkVars, send_queue, send_lock,
                   response_event, current_response_message, wpc, wtask, future,
                   callerVars, alive, raw_header, laneVars, listenerVars, rxCount,
                   wmark, closeCount, stopCount, lastDispatch, writers, cop, enq>>
    /\ UNCHANGED collaboratorVars

\* ----------------------------------------------------------- specification
Next ==
    \/ \E c \in Callers : send(c)
    \/ \E c \in Callers : send_async(c)
    \/ \E c \in Callers : future_result(c)
    \/ \E c \in Callers : future_timeout(c)
    \/ \E w \in SendWorkers : do_send_lock(w)
    \/ \E w \in SendWorkers : do_send_clear(w)
    \/ \E w \in SendWorkers : do_send_write(w)
    \/ \E w \in SendWorkers : do_send_wait(w)
    \/ \E w \in SendWorkers : do_send_timeout(w)
    \/ \E w \in SendWorkers : do_send_return(w)
    \/ \E l \in Lanes : lane_take(l)
    \/ \E l \in Lanes : response_message_received_store(l)
    \/ \E l \in Lanes : response_message_received_set(l)
    \/ \E l \in Lanes : listener_return(l)
    \/ add_message_listener
    \/ device_respond
    \/ device_notify
    \/ run_check
    \/ run_read_header
    \/ run_read_failed
    \/ read_protocol_message
    \/ run_exit
    \/ shutdown_call
    \/ \E t \in ShutdownThreads : shutdown_enter(t)
    \/ \E t \in ShutdownThreads : shutdown_close(t)
    \/ \E t \in ShutdownThreads : reader_stop(t)
    \/ \E t \in ShutdownThreads : reader_join(t)
    \/ \E t \in ShutdownThreads : sender_shutdown(t)

Spec == Init /\ [][Next]_vars

\* ------------------------------------------------------- bulk (file) mode
\* __async_notify_file_download_in_progress / _completed / _failed: one submit
\* to the download lane per callback, when a listener and a file name are set.
SubmitFile(q, kinds) ==
    IF /\ file_download_listener # "none"
       /\ original_file_name # "none"
       /\ ~lane_shutdown[file_download_listener_executor]
    THEN [q EXCEPT ![file_download_listener_executor] =
             @ \o [i \in 1..Len(kinds) |->
                     [listener |-> file_download_listener, msg |-> NoMsg,
                      step |-> kinds[i]]]]
    ELSE q

\* executor.submit raises RuntimeError once the download executor was shut
\* down; the notify helpers call it when a listener and a file name are set.
SubmitRaises ==
    /\ file_download_listener # "none"
    /\ original_file_name # "none"
    /\ lane_shutdown[file_download_listener_executor]

\* _ReaderThread.__reset_file_mode
reset_file_mode ==
    /\ file_event' = FALSE
    /\ file_size' = -1
    /\ original_file_name' = "none"
    /\ file_name' = "none"
    /\ file_error' = "none"
    /\ file_mode' = FALSE
    /\ file_download_listener' = "none"

\* A download_file without the size == 0 shortcut: GetFileUart is enqueued and
\* the reader's download_file entered for every size.
download_call_any_size ==
    /\ dpc = "idle"
    /\ ~send_shutdown
    /\ send_queue' = Enqueue(send_queue, [id |-> GetFileTask, wait |-> FALSE])
    /\ future' = [future EXCEPT ![GetFileTask] = [state |-> "pending", result |-> NoMsg]]
    /\ enq' = Append(enq, GetFileTask)
    /\ dpc' = "reset"
    /\ UNCHANGED <<dret, fileState, fileLocals, timeoutVars, artifact, dl_size, dl_crc_ok,
                   dl_listener, dl_timedout, misframed, lifeVars, linkVars,
                   send_shutdown, send_lock, response_event,
                   current_response_message, wpc, wtask, callerVars, readerVars,
                   laneVars, listenerVars, rxCount, wmark, closeCount, stopCount,
                   senderShutdownCount, lastDispatch, writers, cop>>
    /\ UNCHANGED collaboratorVars

\* EmbodySerial.download_file: size 0 returns an empty temporary file at once;
\* else GetFileUart is enqueued with send_async (submit raises RuntimeError
\* after the sender was shut down) and _ReaderThread.download_file is entered.
download_call ==
    /\ dpc = "idle"
    /\ IF dl_size = 0
       THEN /\ dret' = [kind |-> "path", data |-> <<>>]
            /\ dpc' = "done"
            /\ UNCHANGED <<send_queue, future, enq>>
       ELSE IF send_shutdown
       THEN /\ dret' = [kind |-> "RuntimeError", data |-> <<>>]
            /\ dpc' = "done"
            /\ UNCHANGED <<send_queue, future, enq>>
       ELSE /\ send_queue' = Enqueue(send_queue, [id |-> GetFileTask, wait |-> FALSE])
            /\ future' = [future EXCEPT ![GetFileTask] = [state |-> "pending", result |-> NoMsg]]
            /\ enq' = Append(enq, GetFileTask)
            /\ dpc' = "reset"
            /\ UNCHANGED dret
    /\ UNCHANGED <<fileState, fileLocals, timeoutVars, artifact, dl_size, dl_crc_ok,
                   dl_listener, dl_timedout, misframed, lifeVars, linkVars,
                   send_shutdown, send_lock, response_event,
                   current_response_message, wpc, wtask, callerVars, readerVars,
                   laneVars, listenerVars, rxCount, wmark, closeCount, stopCount,
                   senderShutdownCount, lastDispatch, writers, cop>>
    /\ UNCHANGED collaboratorVars

\* _ReaderThread.download_file: self.__serial.timeout = 10; __reset_file_mode()
download_file_reset ==
    /\ dpc = "reset"
    /\ serial_timeout' = DownloadTimeout
    /\ reset_file_mode
    /\ dpc' = "enter"
    /\ UNCHANGED <<read_timeout, fileLocals, dret, artifact, dl_size, dl_crc_ok,
                   dl_listener, dl_timedout, misframed, lifeVars, linkVars,
                   senderVars, callerVars, readerVars, laneVars, listenerVars,
                   histVars>>
    /\ UNCHANGED collaboratorVars

\* _ReaderThread.download_file: the session's fields, then file_mode = True
download_file_enter ==
    /\ dpc = "enter"
    /\ file_size' = dl_size
    /\ original_file_name' = "name"
    /\ file_download_listener' = dl_listener
    /\ file_mode' = TRUE
    /\ dpc' = "wait"
    /\ UNCHANGED <<file_name, file_error, file_event, timeoutVars, fileLocals, dret,
                   artifact, dl_size, dl_crc_ok, dl_listener, dl_timedout,
                   misframed, lifeVars, linkVars, senderVars, callerVars,
                   readerVars, laneVars, listenerVars, histVars>>
    /\ UNCHANGED collaboratorVars

\* self.__file_event.wait(timeout): returns True once the event is set, False
\* when the timeout expires first.
download_file_wait ==
    /\ dpc = "wait"
    /\ dl_timedout' = ~file_event
    /\ dpc' = "result"
    /\ UNCHANGED <<fileState, fileLocals, timeoutVars, dret, artifact, dl_size,
                   dl_crc_ok, dl_listener, misframed, lifeVars, linkVars,
                   senderVars, callerVars, readerVars, laneVars, listenerVars,
                   histVars>>
    /\ UNCHANGED collaboratorVars

\* The rest of the try block: raise MissingResponseError after a timeout, raise
\* the reader's error, raise MissingResponseError without a file name, or
\* return the file name; on an exception the failed callback is submitted.
download_file_result ==
    /\ dpc = "result"
    /\ LET err == IF dl_timedout THEN "MissingResponseError"
                  ELSE IF file_error # "none" THEN file_error
                  ELSE IF file_name = "none" THEN "MissingResponseError"
                  ELSE "none"
       IN  /\ dret' = IF err = "none" THEN [kind |-> "path", data |-> artifact]
                      ELSE IF SubmitRaises THEN [kind |-> "RuntimeError", data |-> <<>>]
                      ELSE [kind |-> err, data |-> <<>>]
           /\ lane_queue' = IF err = "none" THEN lane_queue
                            ELSE SubmitFile(lane_queue, <<"failed">>)
    /\ dpc' = "finally"
    /\ UNCHANGED <<fileState, fileLocals, timeoutVars, artifact, dl_size, dl_crc_ok,
                   dl_listener, dl_timedout, misframed, lifeVars, linkVars,
                   senderVars, callerVars, readerVars, lane_run, lane_shutdown,
                   listenerVars, histVars>>
    /\ UNCHANGED collaboratorVars

\* finally: __reset_file_mode(); the read timeout is restored when the one
\* saved at construction is truthy.
download_file_finally ==
    /\ dpc = "finally"
    /\ reset_file_mode
    /\ serial_timeout' = IF read_timeout # NoTimeout THEN read_timeout
                         ELSE serial_timeout
    /\ dpc' = "done"
    /\ UNCHANGED <<read_timeout, fileLocals, dret, artifact, dl_size, dl_crc_ok,
                   dl_listener, dl_timedout, misframed, lifeVars, linkVars,
                   senderVars, callerVars, readerVars, laneVars, listenerVars,
                   histVars>>
    /\ UNCHANGED collaboratorVars

\* __read_file, before the loop: remaining_size = file_size - len(first_bytes),
\* the buffer starts as the three bytes the framing loop read.
read_file_begin ==
    /\ rpc = "file"
    /\ remaining_size' = file_size - Len(raw_header)
    /\ in_memory_buffer' = raw_header
    /\ loop_count' = 0
    /\ rpc' = "chunk"
    /\ UNCHANGED <<fileState, timeoutVars, downloadVars, misframed, lifeVars,
                   linkVars, senderVars, callerVars, alive, raw_header, laneVars,
                   listenerVars, histVars>>
    /\ UNCHANGED collaboratorVars

\* __read_file, one pass of the loop: read min(buffer_size, remaining_size)
\* bytes; no byte at all is MissingResponseError; progress goes to the
\* download lane on every 20th pass.  A submit that raises inside the try block
\* is caught by `except Exception`, whose own submit of the failed callback
\* raises again: that RuntimeError leaves __read_file (the finally clause sets
\* the event) and run(), which catches SerialException and OSError only.
read_file_chunk ==
    /\ rpc = "chunk"
    /\ remaining_size > 0 /\ is_open
    /\ LET n == Min(buffer_size, remaining_size)
           chunk == Take(rx, n)
       IN  /\ Len(rx) >= n \/ ShortReads
           /\ rx' = Drop(rx, n)
           /\ misframed' = (misframed \/ ~(Kinds(chunk) \subseteq {"F"}))
           /\ IF chunk = <<>>
              THEN /\ file_error' = "MissingResponseError"
                   /\ lane_queue' = SubmitFile(lane_queue, <<"failed">>)
                   /\ file_event' = TRUE
                   /\ rpc' = IF SubmitRaises THEN "crashed" ELSE "check"
                   /\ UNCHANGED fileLocals
              ELSE IF loop_count % 20 = 0 /\ SubmitRaises
              THEN /\ in_memory_buffer' = in_memory_buffer \o Bytes(chunk)
                   /\ remaining_size' = remaining_size - Len(chunk)
                   /\ file_error' = "RuntimeError"
                   /\ file_event' = TRUE
                   /\ rpc' = "crashed"
                   /\ UNCHANGED <<lane_queue, loop_count>>
              ELSE /\ in_memory_buffer' = in_memory_buffer \o Bytes(chunk)
                   /\ remaining_size' = remaining_size - Len(chunk)
                   /\ lane_queue' = IF loop_count % 20 = 0
                                    THEN SubmitFile(lane_queue, <<"progress">>)
                                    ELSE lane_queue
                   /\ loop_count' = loop_count + 1
                   /\ UNCHANGED <<file_error, file_event, rpc>>
    /\ UNCHANGED <<file_mode, file_size, original_file_name, file_name,
                   file_download_listener, timeoutVars, downloadVars, lifeVars,
                   is_open, tx, answered, notified, senderVars, callerVars, alive,
                   raw_header, lane_run, lane_shutdown, listenerVars, histVars>>
    /\ UNCHANGED collaboratorVars

\* __read_file, after the loop: read the two CRC bytes (a closed port raises),
\* report 100 %, unpack (struct.error on fewer than two bytes), compare with
\* crc16 of the whole buffer, write the temporary file or record the error,
\* submit the terminal callback; finally set the file event.  With the
\* download executor shut down the submit in the except clause raises and the
\* reader thread ends with that RuntimeError.
read_file_crc ==
    /\ rpc = "chunk"
    /\ ~(remaining_size > 0 /\ is_open)
    /\ LET raw_crc_received == Take(rx, CrcLen)
           outcome == IF ~is_open THEN "SerialException"
                      ELSE IF SubmitRaises THEN "RuntimeError"
                      ELSE IF Len(raw_crc_received) < CrcLen THEN "struct.error"
                      ELSE IF UnpackH(Bytes(raw_crc_received)) # crc16(in_memory_buffer)
                           THEN "CrcError"
                      ELSE "none"
       IN  /\ ~is_open \/ Len(rx) >= CrcLen \/ ShortReads
           /\ rx' = IF is_open THEN Drop(rx, CrcLen) ELSE rx
           /\ misframed' = (misframed \/
                            (is_open /\ ~(Kinds(raw_crc_received) \subseteq {"F"})))
           /\ file_error' = IF outcome = "none" THEN file_error ELSE outcome
           /\ file_name' = IF outcome = "none" THEN "tmp" ELSE file_name
           /\ artifact' = IF outcome = "none" THEN in_memory_buffer ELSE artifact
           /\ lane_queue' = SubmitFile(lane_queue,
                                IF ~is_open THEN <<"failed">>
                                ELSE IF outcome = "none" THEN <<"progress", "complete">>
                                ELSE <<"progress", "failed">>)
    /\ file_event' = TRUE
    /\ rpc' = IF SubmitRaises THEN "crashed" ELSE "check"
    /\ UNCHANGED <<file_mode, file_size, original_file_name,
                   file_download_listener, timeoutVars, fileLocals, dpc, dret,
                   dl_size, dl_crc_ok, dl_listener, dl_timedout, lifeVars,
                   is_open, tx, answered, notified, senderVars, callerVars, alive,
                   raw_header, lane_run, lane_shutdown, listenerVars, histVars>>
    /\ UNCHANGED collaboratorVars

\* The one application thread of the download scenario.
FileCallers == {1}

\* A send() issued once download_file has returned or raised.
send_after_download(c) ==
    /\ dpc = "done"
    /\ send(c)
    /\ UNCHANGED collaboratorVars

\* EmbodySerial constructed with a message listener; one download of a file of
\* 0..MaxFileSize bytes is asked for, with or without a download listener, its
\* stream carrying the right or a wrong CRC.
InitFile ==
    /\ Constructed
    /\ message_listeners = <<"msg_user">>
    /\ dl_size \in 0..MaxFileSize
    /\ dl_crc_ok \in BOOLEAN
    /\ dl_listener \in {"none", "dl_user"}

NextFile ==
    \/ download_call
    \/ download_file_reset
    \/ download_file_enter
    \/ download_file_wait
    \/ download_file_result
    \/ download_file_finally
    \/ read_file_begin
    \/ read_file_chunk
    \/ read_file_crc
    \/ \E c \in FileCallers : send_after_download(c)
    \/ \E c \in FileCallers : future_result(c)
    \/ \E w \in SendWorkers : do_send_lock(w)
    \/ \E w \in SendWorkers : do_send_clear(w)
    \/ \E w \in SendWorkers : do_send_write(w)
    \/ \E w \in SendWorkers : do_send_wait(w)
    \/ \E w \in SendWorkers : do_send_timeout(w)
    \/ \E w \in SendWorkers : do_send_return(w)
    \/ \E l \in Lanes : lane_take(l)
    \/ \E l \in Lanes : response_message_received_store(l)
    \/ \E l \in Lanes : response_message_received_set(l)
    \/ \E l \in Lanes : listener_return(l)
    \/ device_respond
    \/ device_notify
    \/ run_check
    \/ run_read_header
    \/ run_read_short
    \/ read_protocol_message
    \/ run_exit
    \/ \E t \in ShutdownThreads : shutdown_enter(t)
    \/ \E t \in ShutdownThreads : shutdown_close(t)
    \/ \E t \in ShutdownThreads : reader_stop(t)
    \/ \E t \in ShutdownThreads : sender_shutdown(t)

SpecFile == InitFile /\ [][NextFile]_vars

\* ================================================================== claims
Done(c) == cpc[c] = "done"
OnlySends == \A c \in Callers : cop[c] # "send_async"

\* C1: with only send() callers, every value a caller gets back is None or the
\* response to its own request, also when an earlier caller timed out and the
\* device answers that earlier request late.
C1_OwnResponseOrNone ==
    OnlySends =>
        \A c \in Callers :
            Done(c) => cret[c].type \in {NoMsg.type, Raised.type, ResponseType(c)}

\* C2: the message send() returns is the first response the reader received
\* after that send's write to the link; a response received before the write
\* is never returned.
C2_FirstResponseAfterWrite ==
    \A c \in Callers :
        (Done(c) /\ cret[c].type >= ResponseBit) => cret[c].seq = wmark[c] + 1

\* C3: at most one write to the link is in progress, every write is made by
\* the single send worker while it holds the send mutex, and bytes are taken
\* from the link only by the reader thread at one of its read statements.
WritesInProgress == {w \in SendWorkers : wpc[w] = "write"}
C3_SingleWriterSingleReader ==
    /\ [](/\ Cardinality(WritesInProgress) <= 1
          /\ \A w \in WritesInProgress : send_lock = w
          /\ Cardinality(writers) <= 1)
    /\ [][/\ tx' # tx => \E w \in WritesInProgress : send_lock = w
          /\ Len(rx') < Len(rx) => rpc \in {"read", "msg"}]_vars
C3_Witness ==
    /\ Len(tx) >= 1
    /\ WritesInProgress # {}

\* C4: for any mix of send() and send_async(), messages are written to the link
\* in the order in which they were enqueued on the sender.
Position(seq, x) == CHOOSE i \in 1..Len(seq) : seq[i] = x
C4_WriteOrderIsEnqueueOrder ==
    \A i, j \in 1..Len(tx) :
        i < j => Position(enq, tx[i]) < Position(enq, tx[j])
C4_Witness ==
    /\ Len(tx) = NCallers
    /\ \E c, d \in Callers : cop[c] = "send" /\ cop[d] = "send_async"

\* C5 as claimed: every decoded frame is submitted to exactly one lane, a
\* response to the response lane and a notification to the notification lane,
\* whatever the number of registered listeners.
Dispatched == lastDispatch.type # 0
KindOf(task) ==
    IF task.step \in {"progress", "complete", "failed"} THEN "file"
    ELSE IF task.msg.type >= ResponseBit THEN "response"
    ELSE "notification"
TasksIn(l) ==
    {lane_queue[l][i] : i \in 1..Len(lane_queue[l])} \cup
        (IF lane_run[l] = NoTask THEN {} ELSE {lane_run[l]})
C6_LanesIndependent ==
    \A l \in Lanes :
        /\ \A t1, t2 \in TasksIn(l) : KindOf(t1) = KindOf(t2)
        /\ (lane_run[l] = NoTask /\ lane_queue[l] # <<>>) => ENABLED lane_take(l)
        /\ lane_run[l].listener = "sender" =>
               ENABLED (\/ response_message_received_store(l)
                        \/ response_message_received_set(l))
        /\ lane_run[l].listener \notin {"none", "sender"} =>
               ENABLED listener_return(l)
C6_Witness ==
    /\ lane_run["rcv"].listener = "msg_user"
    /\ lane_run["dwnld"].listener = "dl_user"
    /\ \E l \in Lanes : lane_run[l].listener = "sender" /\ lane_run[l].step = "set"
    /\ \E c \in FileCallers : cpc[c] # "idle" /\ ~Done(c)

\* C7: a download of size > 0 whose stream carries the right CRC, that did not
\* time out and whose bytes were framed in the right mode, returns an artifact
\* holding exactly the payload, and the CRC of the artifact is the CRC that
\* closed the stream.
C7_ArtifactIsPayload ==
    (dpc = "done" /\ dl_size > 0 /\ dl_crc_ok /\ ~dl_timedout /\ ~misframed) =>
        /\ dret.kind = "path"
        /\ dret.data = FilePayload(dl_size)
        /\ PackH(crc16(dret.data)) = Drop(FileStream(dl_size, TRUE), dl_size)

\* C8: a download of size > 0 whose stream carries a wrong CRC, that did not
\* time out and whose bytes were framed in the right mode, raises CrcError and
\* publishes no artifact; when it has returned the reader is out of file mode
\* and a send() issued afterwards is accepted by the sender.
C8_CrcMismatch ==
    (dpc = "done" /\ dl_size > 0 /\ ~dl_crc_ok /\ ~dl_timedout /\ ~misframed) =>
        /\ dret.kind = "CrcError"
        /\ dret.data = <<>>
        /\ ~file_mode
        /\ \A c \in FileCallers : cret[c] # Raised

\* C9: however often and from whichever threads shutdown() is called, connected
\* never goes back to true and the link is closed, the reader stopped and the
\* send worker shut down at most once each.
C9_ShutdownOnce ==
    /\ [](closeCount <= 1 /\ stopCount <= 1 /\ senderShutdownCount <= 1)
    /\ [][~connected => ~connected']_vars
C9_Witness ==
    /\ shcalls = MaxShutdownCalls
    /\ \A t \in ShutdownThreads : spc[t] = "idle"
    /\ rpc = "dead"
    /\ ~connected
    /\ closeCount = 1 /\ stopCount = 1 /\ senderShutdownCount = 1

\* C10: once shutdown() has set connected to false, nothing is written to the
\* link any more.
C10_NoWriteAfterDisconnect == [][~connected => tx' = tx]_vars

\* C11: once the shutdown() that disconnected has returned, no subscriber
\* callback starts any more: what was queued in a lane and not yet started is
\* never taken up by the lane's worker.
ShutdownReturned == ~connected /\ shutdown_lock = "none"
C11_NoCallbackStartsAfterShutdown ==
    [][ShutdownReturned =>
          \A l \in Lanes : lane_run[l] = NoTask => lane_run'[l] = NoTask]_vars

\* C12: a send() issued once shutdown() has returned is over at once with the
\* result None: no exception is raised, the caller does not wait and nothing
\* is written.
C12_SendAfterShutdownReturnsNone ==
    [][\A c \in Callers :
          (ShutdownReturned /\ cpc[c] = "idle" /\ cpc'[c] # "idle" /\ cop'[c] = "send") =>
              /\ cpc'[c] = "done"
              /\ cret'[c] = NoMsg
              /\ tx' = tx]_vars

\* C13: once the shutdown() that disconnected has returned, the sender's worker
\* pool and the three subscriber pools have all been shut down.
C13_PoolsShutDown ==
    ShutdownReturned =>
        /\ send_shutdown
        /\ \A l \in Lanes : lane_shutdown[l]

\* ------------------------------------------- download overlapping shutdown
\* EmbodySerial constructed without a message listener; one download of
\* MaxFileSize bytes with a download listener is asked for, and the
\* application calls shutdown() at any moment of it.
InitStop ==
    /\ Constructed
    /\ message_listeners = <<>>
    /\ dl_size = MaxFileSize
    /\ dl_crc_ok = TRUE
    /\ dl_listener = "dl_user"

NextStop ==
    \/ download_call
    \/ download_file_reset
    \/ download_file_enter
    \/ download_file_wait
    \/ download_file_result
    \/ download_file_finally
    \/ read_file_begin
    \/ read_file_chunk
    \/ read_file_crc
    \/ \E w \in SendWorkers : do_send_lock(w)
    \/ \E w \in SendWorkers : do_send_clear(w)
    \/ \E w \in SendWorkers : do_send_write(w)
    \/ \E l \in Lanes : lane_take(l)
    \/ \E l \in Lanes : listener_return(l)
    \/ device_respond
    \/ run_check
    \/ run_read_header
    \/ run_read_failed
    \/ run_read_short
    \/ read_protocol_message
    \/ run_exit
    \/ shutdown_call
    \/ \E t \in ShutdownThreads : shutdown_enter(t)
    \/ \E t \in ShutdownThreads : shutdown_close(t)
    \/ \E t \in ShutdownThreads : reader_stop(t)
    \/ \E t \in ShutdownThreads : reader_join(t)
    \/ \E t \in ShutdownThreads : sender_shutdown(t)

SpecStop == InitStop /\ [][NextStop]_vars

\* C14: whenever the reader loop has ended, the reader has marked itself dead
\* and has gone on to deliver on_connected(False) to its connection listener;
\* the reader thread is never ended by an exception.
ReaderEnded == rpc \in {"notify", "dead", "crashed"}
C14_ReaderEndsCleanly ==
    ReaderEnded => ~alive /\ rpc # "crashed"

\* C15: while the link is open, a send() whose request was written and for
\* which the reader received a response after that write, before a timeout
\* expired, returns that response and not None, also when the request waited
\* in the send queue behind earlier requests.  A timeout expires at the send
\* worker (the event wait) or at the caller (the future wait); a response
\* counts as received once the response lane has handed it to the sender.
Written(c) == \E i \in 1..Len(tx) : tx[i] = c
ResponseAfterWrite(c) == Written(c) /\ is_open /\ rxCount > wmark[c]
ResponsesHandedOver ==
    lane_queue[response_message_listener_executor] = <<>>
        /\ lane_run[response_message_listener_executor] = NoTask
C15_ResponseInTimeIsReturned ==
    /\ [](\A c \in Callers :
             (Done(c) /\ cop[c] = "send" /\ cret[c].type >= ResponseBit
                 /\ ResponseAfterWrite(c)) => cret[c].seq > wmark[c])
    /\ [][/\ \A w \in SendWorkers :
                (wpc[w] = "wait" /\ wpc'[w] = "idle" /\ ResponsesHandedOver)
                    => ~ResponseAfterWrite(wtask[w].id)
          /\ \A c \in Callers :
                (cop[c] = "send" /\ cpc[c] = "wait" /\ cpc'[c] = "done"
                    /\ future[c].state = "done" /\ future[c].result.type >= ResponseBit)
                    => cret'[c] = future[c].result]_vars

\* C16: a send() that gets no response ends by returning None and raises no
\* exception, whether the device stayed silent, the write failed or the link
\* was closed.
C16_NoResponseReturnsNone ==
    \A c \in Callers :
        (Done(c) /\ cop[c] = "send" /\ cret[c].type < ResponseBit) => cret[c] = NoMsg

\* ------------------------------------------- several message listeners
\* EmbodySerial.add_message_listener called with distinct listener objects
UserListeners == {"msg_a", "msg_b"}
register_listener(n) ==
    /\ \A i \in 1..Len(message_listeners) : message_listeners[i] # n
    /\ message_listeners' = Append(message_listeners, n)
    /\ UNCHANGED <<fileVars, lifeVars, linkVars, senderVars, callerVars, readerVars,
                   laneVars, response_message_listeners, histVars>>
    /\ UNCHANGED collaboratorVars

InitLane ==
    /\ Constructed
    /\ message_listeners = <<>>
    /\ dl_size = 0
    /\ dl_crc_ok = TRUE
    /\ dl_listener = "none"

NextLane ==
    \/ \E n \in UserListeners : register_listener(n)
    \/ \E c \in Callers : send_async(c)
    \/ \E w \in SendWorkers : do_send_lock(w)
    \/ \E w \in SendWorkers : do_send_clear(w)
    \/ \E w \in SendWorkers : do_send_write(w)
    \/ \E l \in Lanes : lane_take(l)
    \/ \E l \in Lanes : response_message_received_store(l)
    \/ \E l \in Lanes : response_message_received_set(l)
    \/ \E l \in Lanes : listener_return(l)
    \/ device_respond
    \/ device_notify
    \/ run_check
    \/ run_read_header
    \/ read_protocol_message

SpecLane == InitLane /\ [][NextLane]_vars

\* C17: within one lane callbacks never overlap and run in submission order:
\* a callback starts only when the lane's worker is free, it is the oldest one
\* queued, and a notification delivered to k listeners is submitted as k
\* callbacks in registration order behind what the lane already holds
\* (responses are pending in the order they were received).
Pending(l) == (IF lane_run[l] = NoTask THEN <<>> ELSE <<lane_run[l]>>) \o lane_queue[l]
C17_LaneSerialFifo ==
    /\ [](\A i, j \in 1..Len(Pending(response_message_listener_executor)) :
             i < j =>
                 Pending(response_message_listener_executor)[i].msg.seq
                     < Pending(response_message_listener_executor)[j].msg.seq)
    /\ [][LET q == lane_queue[message_listener_executor]
               submitted == Drop(lane_queue'[message_listener_executor], Len(q))
           IN  Len(lane_queue'[message_listener_executor]) > Len(q) =>
                   /\ lane_queue'[message_listener_executor] = q \o submitted
                   /\ [i \in 1..Len(submitted) |-> submitted[i].listener]
                          = message_listeners]_vars
    /\ [][\A l \in Lanes :
             /\ (lane_run[l] # NoTask /\ lane_run'[l] # NoTask) =>
                    /\ lane_run'[l].listener = lane_run[l].listener
                    /\ lane_run'[l].msg = lane_run[l].msg
                    /\ lane_queue'[l] = lane_queue[l] \o Drop(lane_queue'[l], Len(lane_queue[l]))
             /\ (lane_run[l] = NoTask /\ lane_run'[l] # NoTask) =>
                    /\ lane_run'[l] = Head(lane_queue[l])
                    /\ lane_queue'[l] = Tail(lane_queue[l])]_vars
C17_Witness ==
    /\ Len(message_listeners) = 2
    /\ lane_run[message_listener_executor].listener = message_listeners[2]
    /\ lane_run[response_message_listener_executor].msg.seq = 2

\* ------------------------------------------------ callbacks that raise
InitRaise ==
    /\ Constructed
    /\ message_listeners = <<>>
    /\ dl_size = MaxFileSize
    /\ dl_crc_ok = TRUE
    /\ dl_listener = "dl_user"

NextRaise ==
    \/ \E n \in UserListeners : register_listener(n)
    \/ download_call
    \/ download_file_reset
    \/ download_file_enter
    \/ download_file_wait
    \/ download_file_result
    \/ download_file_finally
    \/ read_file_begin
    \/ read_file_chunk
    \/ read_file_crc
    \/ \E w \in SendWorkers : do_send_lock(w)
    \/ \E w \in SendWorkers : do_send_clear(w)
    \/ \E w \in SendWorkers : do_send_write(w)
    \/ \E l \in Lanes : lane_take(l)
    \/ \E l \in Lanes : listener_raise(l)
    \/ \E l \in Lanes : listener_return(l)
    \/ device_respond
    \/ device_notify
    \/ run_check
    \/ run_read_header
    \/ read_protocol_message

SpecRaise == InitRaise /\ [][NextRaise]_vars

\* C18: a subscriber callback that raises is swallowed at the delivery site:
\* the raise and the wrapper's return change nothing of the reader thread or
\* of the sender, the lane's worker becomes free again, and the callbacks
\* queued behind it in the lane are still taken.
Caught(l) == lane_run[l].step = "except"
C18_CallbackExceptionSwallowed ==
    /\ [](\A l \in Lanes :
             /\ Caught(l) => ENABLED listener_return(l)
             /\ (lane_run[l] = NoTask /\ lane_queue[l] # <<>>) => ENABLED lane_take(l))
    /\ [][\A l \in Lanes :
             /\ (~Caught(l) /\ Caught(l)') =>
                    UNCHANGED <<readerVars, senderVars, fileVars, lane_queue, lane_shutdown>>
             /\ (Caught(l) /\ lane_run'[l] # lane_run[l]) =>
                    /\ lane_run'[l] = NoTask
                    /\ UNCHANGED <<readerVars, senderVars, fileVars, lane_queue,
                                   lane_shutdown>>]_vars
C18_Witness ==
    /\ Caught(file_download_listener_executor)
    /\ lane_queue[file_download_listener_executor] # <<>>
    /\ Caught(message_listener_executor)
    /\ lane_queue[message_listener_executor] # <<>>

\* C19: download_file with size = 0 returns the path of an empty artifact in
\* one step and changes nothing else: nothing is written to or read from the
\* link, the reader does not enter file mode (its read timeout stays as it
\* was) and no request is enqueued on the sender.
GetFileRequested ==
    \/ \E i \in 1..Len(enq) : enq[i] = GetFileTask
    \/ \E i \in 1..Len(tx) : tx[i] = GetFileTask
C19_EmptyDownload ==
    /\ [](dl_size = 0 =>
             /\ ~file_mode
             /\ ~GetFileRequested
             /\ serial_timeout = NoTimeout
             /\ dpc \in {"idle", "done"}
             /\ dpc = "done" => dret = [kind |-> "path", data |-> <<>>])
    /\ [][(dl_size = 0 /\ dpc = "idle" /\ dpc' # "idle") =>
             UNCHANGED <<linkVars, senderVars, callerVars, readerVars, laneVars,
                         listenerVars, lifeVars, fileState, fileLocals, timeoutVars,
                         artifact, enq>>]_vars
C19_Witness ==
    /\ dl_size = 0
    /\ dpc = "done"
    /\ dret = [kind |-> "path", data |-> <<>>]
    /\ dl_listener = "dl_user"
    /\ \E c \in FileCallers : Done(c) /\ cret[c].type >= ResponseBit

\* ------------------------------------------- a second download_file call
\* An application thread c calls EmbodySerial.download_file(name, size,
\* other listener) while the first call is in progress; cpc[c] is its position
\* and cret[c] what it returns or raises.
SecondCallers == {2}

\* EmbodySerial.download_file of the second thread (size > 0): send_async
other_download_call(c) ==
    /\ cpc[c] = "idle"
    /\ dpc \notin {"idle", "done"}
    /\ dl_size > 0
    /\ cop' = [cop EXCEPT ![c] = "download"]
    /\ IF send_shutdown
       THEN /\ cpc' = [cpc EXCEPT ![c] = "done"]
            /\ cret' = [cret EXCEPT ![c] = [kind |-> "RuntimeError", data |-> <<>>]]
            /\ UNCHANGED <<send_queue, future, enq>>
       ELSE /\ send_queue' = Enqueue(send_queue, [id |-> GetFileTask, wait |-> FALSE])
            /\ future' = [future EXCEPT ![GetFileTask] = [state |-> "pending", result |-> NoMsg]]
            /\ enq' = Append(enq, GetFileTask)
            /\ cpc' = [cpc EXCEPT ![c] = "dl_reset"]
            /\ UNCHANGED cret
    /\ UNCHANGED <<fileVars, lifeVars, linkVars, send_shutdown, send_lock, response_event,
                   current_response_message, wpc, wtask, readerVars, laneVars,
                   listenerVars, rxCount, wmark, closeCount, stopCount,
                   senderShutdownCount, lastDispatch, writers>>
    /\ UNCHANGED collaboratorVars

\* _ReaderThread.download_file: self.__serial.timeout = 10; __reset_file_mode()
other_download_reset(c) ==
    /\ cpc[c] = "dl_reset"
    /\ serial_timeout' = DownloadTimeout
    /\ reset_file_mode
    /\ cpc' = [cpc EXCEPT ![c] = "dl_enter"]
    /\ UNCHANGED <<read_timeout, fileLocals, downloadVars, misframed, cret, lifeVars,
                   linkVars, senderVars, readerVars, laneVars, listenerVars, histVars>>
    /\ UNCHANGED collaboratorVars

\* _ReaderThread.download_file: the session's fields, then file_mode = True
other_download_enter(c) ==
    /\ cpc[c] = "dl_enter"
    /\ file_size' = dl_size
    /\ original_file_name' = "name"
    /\ file_download_listener' = "dl_other"
    /\ file_mode' = TRUE
    /\ cpc' = [cpc EXCEPT ![c] = "dl_wait"]
    /\ UNCHANGED <<file_name, file_error, file_event, timeoutVars, fileLocals,
                   downloadVars, misframed, cret, lifeVars, linkVars, senderVars,
                   readerVars, laneVars, listenerVars, histVars>>
    /\ UNCHANGED collaboratorVars

\* The try block: self.__file_event.wait(timeout) returns True or times out,
\* then the error checks or `return self.__file_name`; on an exception the
\* failed callback is submitted.
other_download_wait(c) ==
    /\ cpc[c] = "dl_wait"
    /\ LET err == IF ~file_event THEN "MissingResponseError"
                  ELSE IF file_error # "none" THEN file_error
                  ELSE IF file_name = "none" THEN "MissingResponseError"
                  ELSE "none"
       IN  /\ cret' = [cret EXCEPT ![c] =
                          IF err = "none" THEN [kind |-> "path", data |-> artifact]
                          ELSE IF SubmitRaises THEN [kind |-> "RuntimeError", data |-> <<>>]
                          ELSE [kind |-> err, data |-> <<>>]]
           /\ lane_queue' = IF err = "none" THEN lane_queue
                            ELSE SubmitFile(lane_queue, <<"failed">>)
    /\ cpc' = [cpc EXCEPT ![c] = "dl_finally"]
    /\ UNCHANGED <<fileVars, lifeVars, linkVars, senderVars, readerVars, lane_run,
                   lane_shutdown, listenerVars, histVars>>
    /\ UNCHANGED collaboratorVars

\* finally: __reset_file_mode(); restore the read timeout when it is truthy
other_download_finally(c) ==
    /\ cpc[c] = "dl_finally"
    /\ reset_file_mode
    /\ serial_timeout' = IF read_timeout # NoTimeout THEN read_timeout
                         ELSE serial_timeout
    /\ cpc' = [cpc EXCEPT ![c] = "done"]
    /\ UNCHANGED <<read_timeout, fileLocals, downloadVars, misframed, cret, lifeVars,
                   linkVars, senderVars, readerVars, laneVars, listenerVars, histVars>>
    /\ UNCHANGED collaboratorVars

InitOverlap ==
    /\ Constructed
    /\ message_listeners = <<>>
    /\ dl_size \in 1..MaxFileSize
    /\ dl_crc_ok = TRUE
    /\ dl_listener = "dl_user"

NextOverlap ==
    \/ download_call
    \/ download_file_reset
    \/ download_file_enter
    \/ download_file_wait
    \/ download_file_result
    \/ download_file_finally
    \/ \E c \in SecondCallers : other_download_call(c)
    \/ \E c \in SecondCallers : other_download_reset(c)
    \/ \E c \in SecondCallers : other_download_enter(c)
    \/ \E c \in SecondCallers : other_download_wait(c)
    \/ \E c \in SecondCallers : other_download_finally(c)
    \/ read_file_begin
    \/ read_file_chunk
    \/ read_file_crc
    \/ \E w \in SendWorkers : do_send_lock(w)
    \/ \E w \in SendWorkers : do_send_clear(w)
    \/ \E w \in SendWorkers : do_send_write(w)
    \/ \E l \in Lanes : lane_take(l)
    \/ \E l \in Lanes : listener_return(l)
    \/ device_respond
    \/ run_check
    \/ run_read_header
    \/ read_protocol_message

SpecOverlap == InitOverlap /\ [][NextOverlap]_vars

\* C20: at most one file-mode session is active at any time: while the session
\* of the first download_file call is in progress (its fields are set and its
\* finally clause has not run), no step of an overlapping download_file call
\* changes the session's expected size, listener, outcome or completion event.
SessionInProgress == dpc \in {"wait", "result", "finally"}
OtherCallSteps(c) == cop'[c] = "download" /\ cpc'[c] # cpc[c]
C20_SingleFileSession ==
    [][\A c \in SecondCallers :
          (SessionInProgress /\ OtherCallSteps(c)) =>
              UNCHANGED <<file_mode, file_size, file_download_listener, file_name,
                          file_error, file_event>>]_vars

\* C21: once connected is false, a download_file call with size > 0 starts no
\* file session: the call ends at once with a failure, GetFileUart is neither
\* enqueued nor written, and the reader's file mode is not entered.
C21_NoSessionAfterDisconnect ==
    [][(~connected /\ dl_size > 0 /\ dpc = "idle" /\ dpc' # "idle") =>
           /\ dpc' = "done"
           /\ dret'.kind \notin {"none", "path"}
           /\ UNCHANGED <<send_queue, enq, tx, file_mode>>]_vars

\* ------------------------------------------------------- slow transfers
\* __read_file, a pass of the loop that ends with `now - start >
\* self.__file_timeout`: the chunk is read and counted, progress is reported
\* on every 20th pass, then TimeoutError is raised and caught by `except
\* Exception` (error recorded, failed callback submitted); finally the file
\* event is set.
read_file_elapsed ==
    /\ rpc = "chunk"
    /\ remaining_size > 0 /\ is_open
    /\ LET n == Min(buffer_size, remaining_size)
           chunk == Take(rx, n)
       IN  /\ chunk # <<>>
           /\ Len(rx) >= n \/ ShortReads
           /\ rx' = Drop(rx, n)
           /\ misframed' = (misframed \/ ~(Kinds(chunk) \subseteq {"F"}))
           /\ in_memory_buffer' = in_memory_buffer \o Bytes(chunk)
           /\ remaining_size' = remaining_size - Len(chunk)
           /\ IF loop_count % 20 = 0 /\ SubmitRaises
              THEN /\ file_error' = "RuntimeError"
                   /\ UNCHANGED <<lane_queue, loop_count>>
              ELSE /\ file_error' = "TimeoutError"
                   /\ loop_count' = loop_count + 1
                   /\ lane_queue' = SubmitFile(lane_queue,
                                        IF loop_count % 20 = 0
                                        THEN <<"progress", "failed">> ELSE <<"failed">>)
    /\ file_event' = TRUE
    /\ rpc' = IF SubmitRaises THEN "crashed" ELSE "check"
    /\ UNCHANGED <<file_mode, file_size, original_file_name, file_name,
                   file_download_listener, timeoutVars, downloadVars, lifeVars,
                   is_open, tx, answered, notified, senderVars, callerVars, alive,
                   raw_header, lane_run, lane_shutdown, listenerVars, histVars>>
    /\ UNCHANGED collaboratorVars

InitSlow ==
    /\ Constructed
    /\ message_listeners = <<>>
    /\ dl_size \in 1..MaxFileSize
    /\ dl_crc_ok \in BOOLEAN
    /\ dl_listener \in {"none", "dl_user"}

NextSlow ==
    \/ download_call
    \/ download_file_reset
    \/ download_file_enter
    \/ download_file_wait
    \/ download_file_result
    \/ download_file_finally
    \/ read_file_begin
    \/ read_file_chunk
    \/ read_file_elapsed
    \/ read_file_crc
    \/ \E w \in SendWorkers : do_send_lock(w)
    \/ \E w \in SendWorkers : do_send_clear(w)
    \/ \E w \in SendWorkers : do_send_write(w)
    \/ \E l \in Lanes : lane_take(l)
    \/ \E l \in Lanes : listener_return(l)
    \/ device_respond
    \/ run_check
    \/ run_read_header
    \/ run_read_short
    \/ read_protocol_message
    \/ run_exit

SpecSlow == InitSlow /\ [][NextSlow]_vars

\* C22: the error download_file raises is the kind the reader detected while
\* streaming: MissingResponseError for a chunk read that returned no byte,
\* TimeoutError (and not MissingResponseError) for a transfer whose elapsed
\* time exceeded the timeout.  Compared when the call has chosen its result
\* and before its finally clause clears the reader's error.
C22_ErrorKindSurfaces ==
    (dpc = "finally" /\ file_error \in {"MissingResponseError", "TimeoutError"}) =>
        dret.kind = file_error

\* ------------------------------------------------- a close() that raises
\* self.__serial.close() raises SerialException: the exception leaves
\* shutdown() through the `with` block, which releases the shutdown lock;
\* reader.stop() and sender.shutdown() are not reached.  Whether the port is
\* still open afterwards is up to the driver.  On the reader thread the
\* exception is caught by __notify_connection_listener and the thread ends.
shutdown_close_raises(t) ==
    /\ spc[t] = "close"
    /\ is_open' \in {is_open, FALSE}
    /\ closeCount' = closeCount + 1
    /\ shutdown_lock' = "none"
    /\ spc' = [spc EXCEPT ![t] = "raised"]
    /\ rpc' = IF t = "reader" THEN "dead" ELSE rpc
    /\ UNCHANGED <<fileVars, connected, shcalls, tx, rx, answered, notified,
                   senderVars, callerVars, alive, raw_header, laneVars, listenerVars,
                   rxCount, wmark, stopCount, senderShutdownCount, lastDispatch,
                   writers, cop, enq>>
    /\ UNCHANGED collaboratorVars

InitClose ==
    /\ Constructed
    /\ message_listeners = <<>>
    /\ dl_size = 0
    /\ dl_crc_ok = TRUE
    /\ dl_listener = "none"

NextClose ==
    \/ \E c \in Callers : send_async(c)
    \/ \E w \in SendWorkers : do_send_lock(w)
    \/ \E w \in SendWorkers : do_send_clear(w)
    \/ \E w \in SendWorkers : do_send_write(w)
    \/ \E l \in Lanes : lane_take(l)
    \/ \E l \in Lanes : response_message_received_store(l)
    \/ \E l \in Lanes : response_message_received_set(l)
    \/ device_respond
    \/ run_check
    \/ run_read_header
    \/ run_read_failed
    \/ read_protocol_message
    \/ run_exit
    \/ shutdown_call
    \/ \E t \in ShutdownThreads : shutdown_enter(t)
    \/ \E t \in ShutdownThreads : shutdown_close(t)
    \/ \E t \in ShutdownThreads : shutdown_close_raises(t)
    \/ \E t \in ShutdownThreads : reader_stop(t)
    \/ \E t \in ShutdownThreads : reader_join(t)
    \/ \E t \in ShutdownThreads : sender_shutdown(t)

SpecClose == InitClose /\ [][NextClose]_vars

\* C23: shutdown() completes the whole teardown without raising, also when
\* close() raises or the link is already closed: once the shutdown() that
\* disconnected has ended, no shutdown() call has raised, the reader is
\* stopped, and the three pools and the sender's worker are shut down.
C23_ShutdownCompletes ==
    ShutdownReturned =>
        /\ \A t \in ShutdownThreads : spc[t] # "raised"
        /\ ~alive
        /\ send_shutdown
        /\ \A l \in Lanes : lane_shutdown[l]

\* ------------------------------------- a notification callback that sends
\* The thread that runs the callback of listener n is the lane's worker; as a
\* caller of send() it is caller CallerOf(n).
CallerOf(n) == IF n = "msg_a" THEN 1 ELSE 2

\* message_received of a user listener calls communicator.send(msg, timeout)
callback_send(l) ==
    /\ lane_run[l].listener \in UserListeners
    /\ send(CallerOf(lane_run[l].listener))
    /\ UNCHANGED collaboratorVars

\* message_received returns once its send() has returned (or at once, when
\* this invocation does not send)
callback_return(l) ==
    /\ lane_run[l].listener \in UserListeners
    /\ cpc[CallerOf(lane_run[l].listener)] # "wait"
    /\ listener_return(l)
    /\ UNCHANGED collaboratorVars

InitCallback ==
    /\ Constructed
    /\ message_listeners = <<>>
    /\ dl_size = 0
    /\ dl_crc_ok = TRUE
    /\ dl_listener = "none"

NextCallback ==
    \/ \E n \in UserListeners : register_listener(n)
    \/ \E l \in Lanes : callback_send(l)
    \/ \E l \in Lanes : callback_return(l)
    \/ \E c \in Callers : future_result(c)
    \/ \E c \in Callers : future_timeout(c)
    \/ \E w \in SendWorkers : do_send_lock(w)
    \/ \E w \in SendWorkers : do_send_clear(w)
    \/ \E w \in SendWorkers : do_send_write(w)
    \/ \E w \in SendWorkers : do_send_wait(w)
    \/ \E w \in SendWorkers : do_send_timeout(w)
    \/ \E w \in SendWorkers : do_send_return(w)
    \/ \E l \in Lanes : lane_take(l)
    \/ \E l \in Lanes : response_message_received_store(l)
    \/ \E l \in Lanes : response_message_received_set(l)
    \/ device_respond
    \/ device_notify
    \/ run_check
    \/ run_read_header
    \/ read_protocol_message

\* Every thread that can run does run, and the device answers every request;
\* nothing forces a timeout to expire.
FairStep ==
    \/ \E l \in Lanes : callback_return(l)
    \/ \E l \in Lanes : lane_take(l)
    \/ \E l \in Lanes : response_message_received_store(l)
    \/ \E l \in Lanes : response_message_received_set(l)
    \/ \E c \in Callers : future_result(c)
    \/ \E w \in SendWorkers : do_send_lock(w)
    \/ \E w \in SendWorkers : do_send_clear(w)
    \/ \E w \in SendWorkers : do_send_write(w)
    \/ \E w \in SendWorkers : do_send_wait(w)
    \/ \E w \in SendWorkers : do_send_return(w)
    \/ device_respond
    \/ run_check
    \/ run_read_header
    \/ read_protocol_message
FairCallback == WF_vars(FairStep)

SpecCallback == InitCallback /\ [][NextCallback]_vars /\ FairCallback

\* C24: a notification callback may call send() without deadlock: the send
\* comes back with a response or None (also when no timeout expires, the
\* response reaches it through the response lane while the notification
\* lane's worker is blocked), the callback returns, and the notification lane
\* goes on to deliver what is queued behind it.
InSend(l) ==
    /\ lane_run[l].listener \in UserListeners
    /\ cpc[CallerOf(lane_run[l].listener)] = "wait"
HeartbeatType == 1
HeartbeatResponseType == ResponseBit + HeartbeatType

\* expected_response = codec.HeartbeatResponse().encode()
expected_response == Encode(HeartbeatResponseType)

\* What the device behind a candidate port has put on the line when the read
\* returns: the heartbeat response, the response to another request, a
\* heartbeat of its own, the beginning of the response only, or nothing
\* before the 3 s timeout.
ProbeReplies ==
    {Encode(HeartbeatResponseType), Encode(HeartbeatResponseType + 1),
     Encode(HeartbeatType), Take(Encode(HeartbeatResponseType), HeaderLen), <<>>}

\* except Exception as e: ... return False
port_is_alive_except(p) ==
    /\ ports' = [ports EXCEPT ![p].alive = "no"]
    /\ probe' = NoProbe

\* ser = serial.Serial(port=port.device, baudrate=115200, timeout=3)
port_is_alive_open(p) ==
    /\ probe.pc = "idle"
    /\ ports[p].alive = "unknown"
    /\ \A q \in Ports : q < p => ports[q].alive = "no"
    /\ \/ /\ ports' = [ports EXCEPT ![p].is_open = TRUE]
          /\ probe' = [pc |-> "write", port |-> p]
       \/ port_is_alive_except(p)
    /\ UNCHANGED <<lifeVars, linkVars, senderVars, callerVars, readerVars, laneVars,
                   listenerVars, histVars, fileVars, helper, frame>>

\* ser.write(codec.Heartbeat().encode())
port_is_alive_write ==
    /\ probe.pc = "write"
    /\ \/ /\ ports' = [ports EXCEPT ![probe.port].tx = Encode(HeartbeatType)]
          /\ probe' = [probe EXCEPT !.pc = "read"]
       \/ port_is_alive_except(probe.port)
    /\ UNCHANGED <<lifeVars, linkVars, senderVars, callerVars, readerVars, laneVars,
                   listenerVars, histVars, fileVars, helper, frame>>

\* response = ser.read(len(expected_response))
port_is_alive_read ==
    /\ probe.pc = "read"
    /\ \/ \E reply \in ProbeReplies :
            /\ ports' = [ports EXCEPT
                            ![probe.port].response = Take(reply, Len(expected_response))]
            /\ probe' = [probe EXCEPT !.pc = "close"]
       \/ port_is_alive_except(probe.port)
    /\ UNCHANGED <<lifeVars, linkVars, senderVars, callerVars, readerVars, laneVars,
                   listenerVars, histVars, fileVars, helper, frame>>

\* ser.close(); return response == expected_response
port_is_alive_close ==
    /\ probe.pc = "close"
    /\ ports' = [ports EXCEPT
                    ![probe.port].is_open = FALSE,
                    ![probe.port].closes = @ + 1,
                    ![probe.port].alive =
                        IF ports[probe.port].response = expected_response
                        THEN "yes" ELSE "no"]
    /\ probe' = NoProbe
    /\ UNCHANGED <<lifeVars, linkVars, senderVars, callerVars, readerVars, laneVars,
                   listenerVars, histVars, fileVars, helper, frame>>

InitProbe ==
    /\ Constructed
    /\ message_listeners = <<>>
    /\ dl_size = 0
    /\ dl_crc_ok = TRUE
    /\ dl_listener = "none"

NextProbe ==
    \/ \E p \in Ports : port_is_alive_open(p)
    \/ port_is_alive_write
    \/ port_is_alive_read
    \/ port_is_alive_close

SpecProbe == InitProbe /\ [][NextProbe]_vars

\* C25: once the probe of a candidate port has returned, the port it opened
\* is closed again, whichever way the probe went (match, no match, the write
\* or the read raising), and the port is reported alive only when the bytes
\* read equal the encoded HeartbeatResponse.
C25_ProbeClosesPort ==
    \A p \in Ports :
        ports[p].alive # "unknown" =>
            /\ ~ports[p].is_open
            /\ ports[p].alive = "yes" => ports[p].response = expected_response

\* ------------------------------------------------------ typed-request facade
\* EmbodySendHelper: every get_* goes through __do_send_get_attribute_request
\* and every set_* through __do_send_set_attribute_request.
HelperOps == {"get", "set"}

\* A caller enters get_*() or set_*()
helper_call(c, op) ==
    /\ helper[c].pc = "idle"
    /\ cpc[c] = "idle"
    /\ helper' = [helper EXCEPT ![c] = [pc |-> "send", op |-> op, result |-> "none"]]
    /\ UNCHANGED <<lifeVars, linkVars, senderVars, callerVars, readerVars, laneVars,
                   listenerVars, histVars, fileVars, ports, probe, frame>>

\* response = self.__sender.send(msg=..., timeout=self.__send_timeout)
helper_send(c) ==
    /\ helper[c].pc = "send"
    /\ send(c)

\* isinstance(response, codec.GetAttributeResponse / codec.SetAttributeResponse)
IsResponseTo(c, response) == response.type = ResponseType(RequestType(c))

\* __do_send_get_attribute_request: response.value if response and
\* isinstance(...) else None, which get_*() hands on (formatted, or None).
\* __do_send_set_attribute_request: response is not None and isinstance(...).
\* An exception of send passes through both.
HelperResult(c, op, response) ==
    IF response = Raised THEN "raised"
    ELSE IF op = "get"
         THEN (IF response # NoMsg /\ IsResponseTo(c, response) THEN "value" ELSE "None")
         ELSE (IF response # NoMsg /\ IsResponseTo(c, response) THEN "True" ELSE "False")

\* send has returned: get_*() / set_*() returns
helper_return(c) ==
    /\ helper[c].pc = "send"
    /\ Done(c)
    /\ helper' = [helper EXCEPT ![c].pc = "done",
                                ![c].result = HelperResult(c, helper[c].op, cret[c])]
    /\ UNCHANGED <<lifeVars, linkVars, senderVars, callerVars, readerVars, laneVars,
                   listenerVars, histVars, fileVars, ports, probe, frame>>

InitHelper ==
    /\ Constructed
    /\ message_listeners = <<>>
    /\ dl_size = 0
    /\ dl_crc_ok = TRUE
    /\ dl_listener = "none"

NextHelper ==
    \/ \E c \in Callers, op \in HelperOps : helper_call(c, op)
    \/ \E c \in Callers : helper_send(c)
    \/ \E c \in Callers : helper_return(c)
    \/ \E c \in Callers : future_result(c)
    \/ \E c \in Callers : future_timeout(c)
    \/ \E w \in SendWorkers : do_send_lock(w)
    \/ \E w \in SendWorkers : do_send_clear(w)
    \/ \E w \in SendWorkers : do_send_write(w)
    \/ \E w \in SendWorkers : do_send_wait(w)
    \/ \E w \in SendWorkers : do_send_timeout(w)
    \/ \E w \in SendWorkers : do_send_return(w)
    \/ \E l \in Lanes : lane_take(l)
    \/ \E l \in Lanes : response_message_received_store(l)
    \/ \E l \in Lanes : response_message_received_set(l)
    \/ device_respond
    \/ run_check
    \/ run_read_header
    \/ read_protocol_message

SpecHelper == InitHelper /\ [][NextHelper]_vars

\* C26: when send() has returned None to a get_* or set_* operation of the
\* facade, the operation raises MissingResponseError (it returns neither None
\* nor False), and it has called send exactly once.
C26_NoResponseRaises ==
    \A c \in Callers :
        (helper[c].pc = "done" /\ cret[c] = NoMsg) =>
            /\ helper[c].result = "MissingResponseError"
            /\ Cardinality({i \in 1..Len(enq) : enq[i] = c}) = 1

\* C27: when the reader leaves the payload loop of a bulk download of size > 0
\* whose bytes so far were all stream bytes, the buffer holds exactly the
\* `size` payload bytes (for size < 3: the first `size` bytes of the 3-byte
\* prefix, the rest of the prefix being the beginning of the CRC), and the read
\* of the CRC brings the bytes consumed to at most size + 2, all of them bytes
\* of the stream.
C27_StreamLength ==
    [][(/\ rpc = "chunk" /\ rpc' # "chunk"
        /\ ~(remaining_size > 0) /\ is_open /\ file_size > 0 /\ ~misframed) =>
           /\ in_memory_buffer = FilePayload(file_size)
           /\ Len(in_memory_buffer) + (Len(rx) - Len(rx')) <= file_size + CrcLen
           /\ ~misframed']_vars

\* C28: when the GetFileUart request of a download of size > 0 is written to
\* the link, the reader is already in file mode: the flag is true, the expected
\* size is installed and the completion event is cleared.
C28_FileModeBeforeRequest ==
    [][(Len(tx') > Len(tx) /\ tx'[Len(tx')] = GetFileTask) =>
           /\ file_mode
           /\ file_size = dl_size
           /\ ~file_event]_vars

\* C29: once a bulk transfer has ended (its completion event is set), the
\* reader is out of file mode when it interprets its next header: the next 3
\* bytes are handled as a protocol header, never as the start of a file
\* payload.
C29_ProtocolFramingRestored ==
    [][(rpc = "read" /\ rpc' \in {"file", "msg"} /\ file_event) =>
           (~file_mode /\ rpc' = "msg")]_vars

\* C30: when download_file has finished, with whatever outcome, the link's
\* read timeout is the one that was in force before the download started (the
\* value saved at construction, as nothing else sets it in between); the 10 s
\* of the download do not stay in force.
C30_ReadTimeoutRestored ==
    dpc = "done" => (serial_timeout = read_timeout /\ serial_timeout # DownloadTimeout)

\* -------------------------------------------------------- response subscribers
\* _ReaderThread.add_response_message_listener: a user subscriber is appended
\* after the sender, which EmbodySerial.__init__ registered first.
add_response_message_listener ==
    /\ \A i \in 1..Len(response_message_listeners) :
           response_message_listeners[i] # "rsp_user"
    /\ response_message_listeners' = Append(response_message_listeners, "rsp_user")
    /\ UNCHANGED <<fileVars, lifeVars, linkVars, senderVars, callerVars, readerVars,
                   laneVars, message_listeners, histVars>>
    /\ UNCHANGED collaboratorVars

InitRsp ==
    /\ Constructed
    /\ message_listeners = <<>>
    /\ dl_size = 0
    /\ dl_crc_ok = TRUE
    /\ dl_listener = "none"

NextRsp ==
    \/ add_response_message_listener
    \/ \E c \in Callers : send(c)
    \/ \E c \in Callers : future_result(c)
    \/ \E c \in Callers : future_timeout(c)
    \/ \E w \in SendWorkers : do_send_lock(w)
    \/ \E w \in SendWorkers : do_send_clear(w)
    \/ \E w \in SendWorkers : do_send_write(w)
    \/ \E w \in SendWorkers : do_send_wait(w)
    \/ \E w \in SendWorkers : do_send_timeout(w)
    \/ \E w \in SendWorkers : do_send_return(w)
    \/ \E l \in Lanes : lane_take(l)
    \/ \E l \in Lanes : response_message_received_store(l)
    \/ \E l \in Lanes : response_message_received_set(l)
    \/ \E l \in Lanes : listener_return(l)
    \/ device_respond
    \/ run_check
    \/ run_read_header
    \/ read_protocol_message

SpecRsp == InitRsp /\ [][NextRsp]_vars

\* C31: the step of the reader that dispatches a response stores it in the
\* response slot and sets the response event itself, before the response pool
\* gets anything to run; so the task that wakes the waiting sender never stands
\* in the response lane behind the callback of a response subscriber.
SenderTaskQueued ==
    \E i \in 1..Len(lane_queue[response_message_listener_executor]) :
        lane_queue[response_message_listener_executor][i].listener = "sender"
C31_WakeBeforeSubscribers ==
    /\ [][rxCount' > rxCount =>
              (response_event' /\ current_response_message'.seq = rxCount')]_vars
    /\ [](lane_run[response_message_listener_executor].listener = "rsp_user" =>
              ~SenderTaskQueued)

\* ------------------------------------------------------------ damaged frames
\* A notification frame that reaches the host damaged: with a wrong CRC, or
\* with a length field that says one byte less or two bytes more than the
\* frame has.
DamageKinds == {"crc", "short", "long"}
DamagedFrame(kind) ==
    LET good == Encode(NotificationType)
    IN  IF kind = "crc"
        THEN Take(good, HeaderLen) \o
             PackH((UnpackH(Drop(good, HeaderLen)) + 1) % 65536)
        ELSE IF kind = "short"
        THEN <<good[1], 0, Len(good) - 1>> \o Drop(good, HeaderLen)
        ELSE <<good[1], 0, Len(good) + 2>> \o Drop(good, HeaderLen)

\* The device pushes a notification frame that arrives damaged.
device_notify_damaged(kind) ==
    /\ is_open
    /\ notified < MaxNotifications
    /\ rx' = rx \o FrameOnWire(DamagedFrame(kind))
    /\ notified' = notified + 1
    /\ UNCHANGED <<fileVars, lifeVars, is_open, tx, answered, senderVars, callerVars,
                   readerVars, laneVars, listenerVars, histVars>>
    /\ UNCHANGED collaboratorVars

InitDamaged ==
    /\ Constructed
    /\ message_listeners = <<"msg_user">>
    /\ dl_size = 0
    /\ dl_crc_ok = TRUE
    /\ dl_listener = "none"

NextDamaged ==
    \/ \E c \in Callers : send_async(c)
    \/ \E w \in SendWorkers : do_send_lock(w)
    \/ \E w \in SendWorkers : do_send_clear(w)
    \/ \E w \in SendWorkers : do_send_write(w)
    \/ \E l \in Lanes : lane_take(l)
    \/ \E l \in Lanes : response_message_received_store(l)
    \/ \E l \in Lanes : response_message_received_set(l)
    \/ device_respond
    \/ \E kind \in DamageKinds : device_notify_damaged(kind)
    \/ run_check
    \/ run_read_header
    \/ read_protocol_message

SpecDamaged == InitDamaged /\ [][NextDamaged]_vars

\* C32: of the frames on the wire, the damaged notifications are delivered to
\* no listener, the reader stays alive and in protocol framing, and every
\* response, all of them well-formed, is read at its frame boundaries and
\* dispatched.
C32_DamagedFrameDropped ==
    /\ [](lane_queue[message_listener_executor] = <<>>
              /\ lane_run[message_listener_executor] = NoTask)
    /\ [](alive /\ ~file_mode /\ rpc \in {"check", "read", "msg"})
    /\ [](~misframed)
    /\ [][(rpc = "msg" /\ rpc' = "check" /\ raw_header[1] >= ResponseBit) =>
              rxCount' = rxCount + 1]_vars

\* C33: a header read that ends without a full header makes the reader leave
\* its loop: nothing is parsed or dispatched in that step or afterwards, and
\* once the reader thread has ended and no shutdown() is under way any more,
\* connected is false, the link is closed and the send worker is shut down.
ReaderLeft == rpc \in {"exit", "notify", "dead"}
C33_EofDisconnects ==
    /\ [][ReaderLeft' =>
              /\ \A l \in {message_listener_executor,
                            response_message_listener_executor} :
                     Len(lane_queue'[l]) <= Len(lane_queue[l])
              /\ rxCount' = rxCount
              /\ raw_header' = raw_header]_vars
    /\ [][ReaderLeft => ReaderLeft']_vars
    /\ []((/\ rpc = "dead"
           /\ shutdown_lock = "none"
           /\ \A t \in ShutdownThreads : spc[t] = "idle") =>
              (~connected /\ ~is_open /\ send_shutdown /\ ~alive))
C33_Witness ==
    /\ rpc = "dead"
    /\ shcalls = 0
    /\ spc["reader"] = "idle"
    /\ ~connected /\ ~is_open /\ send_shutdown
    /\ rx # <<>>

\* ------------------------------------------------- gathering a protocol frame
\* The loop of __read_protocol_message on its own, for frames of any length
\* up to MaxChunks reads; raw_message is kept by its length.
MaxChunks == 2
FrameLengths == {HeaderLen + n : n \in 0..(MaxChunks * ChunkLen)}

\* What self.__serial.read(size) can return on a link with a read timeout:
\* all `size` bytes, or fewer when the timeout expires first.
ReadCounts(size) == {size, size - 1, 0}

\* msg_type, length = struct.unpack(">BH", raw_header)
\* remaining_length = length - 3; raw_message = raw_header
frame_header(length) ==
    /\ frame.pc = "idle"
    /\ frame' = [pc |-> "loop", length |-> length,
                 remaining_length |-> length - HeaderLen,
                 raw_message |-> HeaderLen, requested |-> <<>>]
    /\ UNCHANGED <<lifeVars, linkVars, senderVars, callerVars, readerVars, laneVars,
                   listenerVars, histVars, fileVars, ports, probe, helper>>

\* raw_message += self.__serial.read(size=min(remaining_length, 1024))
\* remaining_length -= 1024
frame_read(n) ==
    /\ frame.pc = "loop"
    /\ frame.remaining_length > 0
    /\ n \in ReadCounts(Min(frame.remaining_length, ChunkLen))
    /\ frame' = [frame EXCEPT
                    !.raw_message = @ + n,
                    !.remaining_length = @ - ChunkLen,
                    !.requested = Append(@, Min(frame.remaining_length, ChunkLen))]
    /\ UNCHANGED <<lifeVars, linkVars, senderVars, callerVars, readerVars, laneVars,
                   listenerVars, histVars, fileVars, ports, probe, helper>>

\* the loop is left: msg = codec.decode(raw_message)
frame_decode ==
    /\ frame.pc = "loop"
    /\ ~(frame.remaining_length > 0)
    /\ frame' = [frame EXCEPT !.pc = "decode"]
    /\ UNCHANGED <<lifeVars, linkVars, senderVars, callerVars, readerVars, laneVars,
                   listenerVars, histVars, fileVars, ports, probe, helper>>

InitFrame ==
    /\ Constructed
    /\ message_listeners = <<>>
    /\ dl_size = 0
    /\ dl_crc_ok = TRUE
    /\ dl_listener = "none"

NextFrame ==
    \/ \E length \in FrameLengths : frame_header(length)
    \/ \E n \in 0..ChunkLen : frame_read(n)
    \/ frame_decode

SpecFrame == InitFrame /\ [][NextFrame]_vars

\* C34: when the reader decodes a frame whose header carries the length L, it
\* has obtained exactly L - 3 bytes after the header, whether or not a read
\* returned fewer bytes than it asked for, in reads of at most 1024 bytes; for
\* L = 3 it has read nothing more.
C34_GathersWholeFrame ==
    frame.pc = "decode" =>
        /\ frame.raw_message = frame.length
        /\ \A i \in 1..Len(frame.requested) : frame.requested[i] <= ChunkLen
        /\ frame.length = HeaderLen => frame.requested = <<>>

\* ------------------------------------------------ shutdown from two threads
\* shutdown() called by the application while the reader thread, leaving its
\* loop, calls it through on_connected(False).
InitLatch ==
    /\ Constructed
    /\ message_listeners = <<>>
    /\ dl_size = 0
    /\ dl_crc_ok = TRUE
    /\ dl_listener = "none"

NextLatch ==
    \/ \E c \in Callers : send_async(c)
    \/ \E w \in SendWorkers : do_send_lock(w)
    \/ \E w \in SendWorkers : do_send_clear(w)
    \/ \E w \in SendWorkers : do_send_write(w)
    \/ \E l \in Lanes : lane_take(l)
    \/ \E l \in Lanes : response_message_received_store(l)
    \/ \E l \in Lanes : response_message_received_set(l)
    \/ device_respond
    \/ run_check
    \/ run_read_header
    \/ run_read_failed
    \/ read_protocol_message
    \/ run_exit
    \/ shutdown_call
    \/ \E t \in ShutdownThreads : shutdown_enter(t)
    \/ \E t \in ShutdownThreads : shutdown_close(t)
    \/ \E t \in ShutdownThreads : shutdown_close_raises(t)
    \/ \E t \in ShutdownThreads : reader_stop(t)
    \/ \E t \in ShutdownThreads : reader_join(t)
    \/ \E t \in ShutdownThreads : sender_shutdown(t)

\* A thread inside shutdown() keeps running: it gets the lock when the lock is
\* free, close() returns or raises, and the join ends.
ShutdownStep(t) ==
    \/ shutdown_enter(t)
    \/ shutdown_close(t)
    \/ shutdown_close_raises(t)
    \/ reader_stop(t)
    \/ reader_join(t)
    \/ sender_shutdown(t)
FairLatch == \A t \in ShutdownThreads : WF_vars(ShutdownStep(t))

SpecLatch == InitLatch /\ [][NextLatch]_vars /\ FairLatch

\* C35: every shutdown(), of the application or of the reader thread at its
\* disconnect, comes to its end (it returns, or close() raised out of it),
\* however the two interleave; and the reader thread is never in the join of
\* _ReaderThread.stop().
C35_ShutdownReturns ==
    /\ \A t \in ShutdownThreads :
           (spc[t] = "lock") ~> (spc[t] \in {"idle", "raised"})
    /\ [](spc["reader"] # "join")
C35_Witness ==
    /\ spc["app"] = "join"
    /\ shutdown_lock = "app"
    /\ spc["reader"] = "lock"

\* C36: the download listener gets one terminal callback per download: at no
\* time are two terminal callbacks (complete or failed) of the one download
\* submitted and not yet returned.
TerminalCallbacks ==
    LET l == file_download_listener_executor
        terminal(task) == task.step \in {"complete", "failed"}
    IN  Cardinality({i \in 1..Len(lane_queue[l]) : terminal(lane_queue[l][i])})
            + (IF terminal(lane_run[l]) THEN 1 ELSE 0)
C36_OneTerminalCallback == TerminalCallbacks <= 1

\* ------------------------------------------- a later download_file call
\* EmbodySerial.download_file of a thread c (size > 0) that starts after the
\* first call has returned or raised, while the reader is still inside the
\* __read_file it entered for the first call: send_async, then the reader's
\* download_file (other_download_reset and the steps after it).
later_download_call(c) ==
    /\ cpc[c] = "idle"
    /\ dpc = "done"
    /\ rpc \in {"file", "chunk"}
    /\ dl_size > 0
    /\ cop' = [cop EXCEPT ![c] = "download"]
    /\ IF send_shutdown
       THEN /\ cpc' = [cpc EXCEPT ![c] = "done"]
            /\ cret' = [cret EXCEPT ![c] = [kind |-> "RuntimeError", data |-> <<>>]]
            /\ UNCHANGED <<send_queue, future, enq>>
       ELSE /\ send_queue' = Enqueue(send_queue, [id |-> GetFileTask, wait |-> FALSE])
            /\ future' = [future EXCEPT ![GetFileTask] = [state |-> "pending", result |-> NoMsg]]
            /\ enq' = Append(enq, GetFileTask)
            /\ cpc' = [cpc EXCEPT ![c] = "dl_reset"]
            /\ UNCHANGED cret
    /\ UNCHANGED <<fileVars, lifeVars, linkVars, send_shutdown, send_lock, response_event,
                   current_response_message, wpc, wtask, readerVars, laneVars,
                   listenerVars, rxCount, wmark, closeCount, stopCount,
                   senderShutdownCount, lastDispatch, writers>>
    /\ UNCHANGED collaboratorVars

InitLate ==
    /\ Constructed
    /\ message_listeners = <<>>
    /\ dl_size \in 1..MaxFileSize
    /\ dl_crc_ok \in BOOLEAN
    /\ dl_listener = "dl_user"

NextLate ==
    \/ download_call
    \/ download_file_reset
    \/ download_file_enter
    \/ download_file_wait
    \/ download_file_result
    \/ download_file_finally
    \/ \E c \in SecondCallers : later_download_call(c)
    \/ \E c \in SecondCallers : other_download_reset(c)
    \/ \E c \in SecondCallers : other_download_enter(c)
    \/ \E c \in SecondCallers : other_download_wait(c)
    \/ \E c \in SecondCallers : other_download_finally(c)
    \/ read_file_begin
    \/ read_file_chunk
    \/ read_file_crc
    \/ \E w \in SendWorkers : do_send_lock(w)
    \/ \E w \in SendWorkers : do_send_clear(w)
    \/ \E w \in SendWorkers : do_send_write(w)
    \/ \E l \in Lanes : lane_take(l)
    \/ \E l \in Lanes : listener_return(l)
    \/ device_respond
    \/ run_check
    \/ run_read_header
    \/ read_protocol_message

SpecLate == InitLate /\ [][NextLate]_vars

\* C37: the outcome a download_file call observes comes from the stream of its
\* own request: a later call gets the reader's outcome (an artifact path or the
\* reader's error) only once the device has answered that call's GetFileUart,
\* the second one written to the link.
FileRequestsAnswered ==
    Cardinality({i \in 1..answered : tx[i] = GetFileTask})
C37_OutcomeOfSameCall ==
    \A c \in SecondCallers :
        (/\ cop[c] = "download"
         /\ cpc[c] \in {"dl_finally", "done"}
         /\ cret[c].kind # "MissingResponseError") =>
            FileRequestsAnswered >= 2

\* ------------------------------------ send() from a response subscriber
\* The application thread that calls send(), and the caller identity of the
\* send() made from inside response_message_received of the subscriber.
ResponseCallbackCaller == 1
AppCallers == Callers \ {ResponseCallbackCaller}

\* response_message_received of the subscriber calls communicator.send(msg)
response_callback_send(l) ==
    /\ lane_run[l].listener = "rsp_user"
    /\ send(ResponseCallbackCaller)

\* A subscriber whose callback returns while its send() is still waiting.
response_callback_return_early(l) ==
    /\ lane_run[l].listener = "rsp_user"
    /\ listener_return(l)

\* response_message_received returns once its send() has returned (or at
\* once, when this invocation does not send)
response_callback_return(l) ==
    /\ lane_run[l].listener = "rsp_user"
    /\ cpc[ResponseCallbackCaller] # "wait"
    /\ listener_return(l)

InitRspCallback ==
    /\ Constructed
    /\ message_listeners = <<>>
    /\ dl_size = 0
    /\ dl_crc_ok = TRUE
    /\ dl_listener = "none"

NextRspCallback ==
    \/ add_response_message_listener
    \/ \E c \in AppCallers : send(c)
    \/ \E l \in Lanes : response_callback_send(l)
    \/ \E l \in Lanes : response_callback_return(l)
    \/ \E c \in Callers : future_result(c)
    \/ \E c \in Callers : future_timeout(c)
    \/ \E w \in SendWorkers : do_send_lock(w)
    \/ \E w \in SendWorkers : do_send_clear(w)
    \/ \E w \in SendWorkers : do_send_write(w)
    \/ \E w \in SendWorkers : do_send_wait(w)
    \/ \E w \in SendWorkers : do_send_timeout(w)
    \/ \E w \in SendWorkers : do_send_return(w)
    \/ \E l \in Lanes : lane_take(l)
    \/ \E l \in Lanes : response_message_received_store(l)
    \/ \E l \in Lanes : response_message_received_set(l)
    \/ device_respond
    \/ run_check
    \/ run_read_header
    \/ read_protocol_message

SpecRspCallback == InitRspCallback /\ [][NextRspCallback]_vars

\* C38: a send() made from inside a response subscriber's callback returns
\* None: while it waits, the callback occupies the response lane and no step
\* sets the response event, so the response to it stays queued behind the
\* callback.
InResponseCallbackSend == cpc[ResponseCallbackCaller] = "wait"
InitGiveUp ==
    /\ Constructed
    /\ message_listeners = <<>>
    /\ dl_size = 0
    /\ dl_crc_ok = TRUE
    /\ dl_listener = "none"

NextGiveUp ==
    \/ \E c \in Callers : send(c)
    \/ \E c \in Callers : send_async(c)
    \/ \E c \in Callers : future_result(c)
    \/ \E c \in Callers : future_timeout(c)
    \/ \E w \in SendWorkers : do_send_lock(w)
    \/ \E w \in SendWorkers : do_send_clear(w)
    \/ \E w \in SendWorkers : do_send_write(w)
    \/ \E w \in SendWorkers : do_send_wait(w)
    \/ \E w \in SendWorkers : do_send_timeout(w)
    \/ \E w \in SendWorkers : do_send_return(w)
    \/ \E l \in Lanes : lane_take(l)
    \/ \E l \in Lanes : response_message_received_store(l)
    \/ \E l \in Lanes : response_message_received_set(l)
    \/ device_respond
    \/ run_check
    \/ run_read_header
    \/ read_protocol_message
    \/ shutdown_call
    \/ \E t \in ShutdownThreads : shutdown_enter(t)
    \/ \E t \in ShutdownThreads : shutdown_close(t)
    \/ \E t \in ShutdownThreads : reader_stop(t)
    \/ \E t \in ShutdownThreads : reader_join(t)
    \/ \E t \in ShutdownThreads : sender_shutdown(t)

\* The send worker is a thread of its own: it takes the next work item when
\* it is idle, and its wait for the response event ends, by the event or by
\* the timeout.
SendWorkerStep(w) ==
    \/ do_send_lock(w)
    \/ do_send_clear(w)
    \/ do_send_write(w)
    \/ do_send_wait(w)
    \/ do_send_timeout(w)
    \/ do_send_return(w)
FairGiveUp == \A w \in SendWorkers : WF_vars(SendWorkerStep(w))

SpecGiveUp == InitGiveUp /\ [][NextGiveUp]_vars /\ FairGiveUp

InitReturn ==
    /\ Constructed
    /\ message_listeners = <<>>
    /\ dl_size \in 1..MaxFileSize
    /\ dl_crc_ok \in BOOLEAN
    /\ dl_listener \in {"none", "dl_user"}

NextReturn ==
    \/ download_call
    \/ download_file_reset
    \/ download_file_enter
    \/ download_file_wait
    \/ download_file_result
    \/ download_file_finally
    \/ read_file_begin
    \/ read_file_chunk
    \/ read_file_crc
    \/ \E w \in SendWorkers : do_send_lock(w)
    \/ \E w \in SendWorkers : do_send_clear(w)
    \/ \E w \in SendWorkers : do_send_write(w)
    \/ \E l \in Lanes : lane_take(l)
    \/ \E l \in Lanes : listener_return(l)
    \/ device_respond
    \/ run_check
    \/ run_read_header
    \/ run_read_short
    \/ read_protocol_message
    \/ run_exit
    \/ \E t \in ShutdownThreads : shutdown_enter(t)
    \/ \E t \in ShutdownThreads : shutdown_close(t)
    \/ \E t \in ShutdownThreads : reader_stop(t)
    \/ \E t \in ShutdownThreads : sender_shutdown(t)

\* The thread that called download_file keeps running; its wait on the file
\* event ends, by the event or by the timeout.
DownloadStep ==
    \/ download_call
    \/ download_file_reset
    \/ download_file_enter
    \/ download_file_wait
    \/ download_file_result
    \/ download_file_finally
FairReturn == WF_vars(DownloadStep)

SpecReturn == InitReturn /\ [][NextReturn]_vars /\ FairReturn

\* C40: a download_file call with size > 0 that has started comes to its end,
\* with an artifact path or an exception, whatever the reader does; and once
\* it has ended, file_mode is false and the size, the listener, the outcome
\* (file name and error) and the event of the file mode are reset.
FileModeReset ==
    /\ ~file_mode
    /\ file_size = -1
    /\ file_download_listener = "none"
    /\ file_name = "none"
    /\ file_error = "none"
    /\ ~file_event
C40_DownloadEnds ==
    /\ (dpc # "idle") ~> (dpc = "done" /\ dret.kind # "none")
    /\ [](dpc = "done" => FileModeReset)

====
